---- MODULE Spec2Model ----
(***************************************************************************)
(* State-machine model of the employee-dashboard GraphQL service           *)
(* (src/app/api/graphql/route.ts): the employees and departments           *)
(* collections, the lazily opened store connection with its seeding, the   *)
(* process-wide result cache, and the resolvers, each split at its awaits. *)
(* The browser side (src/lib/apollo-client.ts, the pages and components    *)
(* under src/app and src/unnamed) is modelled over it: the client cache,   *)
(* the requests in flight, and the state of the mounted components; and    *)
(* the PerformanceMonitor (src/unnamed/part_004) beside it.                *)
(*                                                                         *)
(* Strings are sequences of one-character strings, so that trim, the       *)
(* ObjectId hex check and the cache-key templates are computed as the      *)
(* code computes them.                                                     *)
(***************************************************************************)
EXTENDS Integers, Sequences, FiniteSets, TLC

VARIABLES
    store,   \* employees collection: ObjectId (canonical hex) -> document
    cache,   \* InMemoryLRUCache: key string -> stored JSON text
    req,     \* the requests in flight, one record per slot
    out,     \* the response the last step sent to its caller, if it sent one
    hist,    \* what the completed calls returned and what the store held at
             \* process start (history, read by no action)
    cachedDb,     \* the module's cachedDb: FALSE is null, TRUE is the Db
    departments,  \* departments collection: ObjectId -> document
    mongoClient,  \* how many MongoClient connections the process has opened
    page,     \* browser: the route shown and what it presents
    apollo,   \* browser: the Apollo client's InMemoryCache
    net,      \* browser: the HTTP requests to /api/graphql in flight
    local,    \* browser: the useState values of the mounted components
    performanceMonitor,  \* the global PerformanceMonitor instance
    now,      \* Date.now()
    recorded  \* every metric recordMetric was given, in order (history)

vars == <<store, cache, req, out, hist, cachedDb, departments, mongoClient,
          page, apollo, net, local, performanceMonitor, now, recorded>>

\* The browser's state and the performance monitor, which no step of the
\* service touches.
clientvars == <<page, apollo, net, local>>
monitorvars == <<performanceMonitor, now, recorded>>

\* The connection state, which no resolver touches.
dbvars == <<cachedDb, departments, mongoClient>>

-----------------------------------------------------------------------------
(* Bounds of the model *)

\* Request slots: how many resolver calls may be in flight at once.
NReq == 2
\* Documents in the employees collection (seed document included).
MaxEmployees == 2
\* Successful incrementView calls admitted per employee.
MaxViews == 2

-----------------------------------------------------------------------------
(* Strings *)

Upper == <<"A", "B", "C", "D", "E", "F", "G", "H", "I", "J", "K", "L", "M",
           "N", "O", "P", "Q", "R", "S", "T", "U", "V", "W", "X", "Y", "Z">>
Lower == <<"a", "b", "c", "d", "e", "f", "g", "h", "i", "j", "k", "l", "m",
           "n", "o", "p", "q", "r", "s", "t", "u", "v", "w", "x", "y", "z">>
Digit == <<"0", "1", "2", "3", "4", "5", "6", "7", "8", "9">>

\* The characters the model's inputs use, in code-unit order.
Ascii == <<" ", "-">> \o Digit \o <<":">> \o Upper \o Lower

Range(s) == {s[i] : i \in DOMAIN s}

Ord(c) == CHOOSE i \in DOMAIN Ascii : Ascii[i] = c

\* String.prototype.trim treats these as white space.
IsSpace(c) == c = " "

RECURSIVE trimStart(_)
trimStart(s) ==
    IF s # <<>> /\ IsSpace(Head(s)) THEN trimStart(Tail(s)) ELSE s

RECURSIVE trimEnd(_)
trimEnd(s) ==
    IF s # <<>> /\ IsSpace(s[Len(s)])
    THEN trimEnd(SubSeq(s, 1, Len(s) - 1))
    ELSE s

trim(s) == trimEnd(trimStart(s))

\* Binary string order, as the store's sort({ name: 1 }) compares names.
RECURSIVE StrLeq(_, _)
StrLeq(a, b) ==
    IF a = <<>> THEN TRUE
    ELSE IF b = <<>> THEN FALSE
    ELSE IF Head(a) = Head(b) THEN StrLeq(Tail(a), Tail(b))
    ELSE Ord(Head(a)) < Ord(Head(b))

-----------------------------------------------------------------------------
(* ObjectId *)

ObjectIdHexLen == 24

HexChars == Range(Digit) \cup {Lower[i] : i \in 1..6} \cup {Upper[i] : i \in 1..6}

ToLowerChar(c) ==
    IF c \in Range(Upper)
    THEN Lower[CHOOSE i \in DOMAIN Upper : Upper[i] = c]
    ELSE c

ToUpperChar(c) ==
    IF c \in Range(Lower)
    THEN Upper[CHOOSE i \in DOMAIN Lower : Lower[i] = c]
    ELSE c

\* ObjectId.isValid on a string: 24 hex digits of either case.
ObjectIdIsValid(s) ==
    /\ Len(s) = ObjectIdHexLen
    /\ \A i \in DOMAIN s : s[i] \in HexChars

\* new ObjectId(s): the 12 bytes the hex string denotes.  An ObjectId is
\* represented by its toString(), the lower-case hex of those bytes.
NewObjectId(s) == [i \in DOMAIN s |-> ToLowerChar(s[i])]

ObjectIdToString(oid) == oid

-----------------------------------------------------------------------------
(* Result cache *)

DefaultTtl == 300000
DetailsTtl == 600000
DepartmentsTtl == 1800000

\* CACHE_KEYS
CACHE_KEYS_EMPLOYEES ==
    <<"e", "m", "p", "l", "o", "y", "e", "e", "s", ":", "a", "l", "l">>

CACHE_KEYS_EMPLOYEE_DETAILS(id) ==
    <<"e", "m", "p", "l", "o", "y", "e", "e", ":">> \o id

CACHE_KEYS_DEPARTMENTS ==
    <<"d", "e", "p", "a", "r", "t", "m", "e", "n", "t", "s", ":", "a", "l", "l">>

CACHE_KEYS_EMPLOYEES_BY_DEPT(dept) ==
    <<"e", "m", "p", "l", "o", "y", "e", "e", "s", ":",
      "d", "e", "p", "t", ":">> \o dept

\* JSON text of a value.  The values cached here are objects and arrays of
\* strings and finite numbers, which JSON.parse reads back unchanged; the
\* text is never the empty string.
JSONstringify(data) == <<"json", data>>
JSONparse(text) == text[2]

\* Faulty variant of getFromCache: an empty list counts as a miss.
getFromCacheNonEmpty(key) ==
    IF /\ key \in DOMAIN cache
       /\ cache[key].text # <<>>
       /\ JSONparse(cache[key].text) # <<>>
    THEN <<JSONparse(cache[key].text)>>
    ELSE <<>>

\* null is <<>>, a value v is <<v>>.  A parsed array or object is truthy,
\* so the callers' `if (cached)` is `# <<>>`.
getFromCache(key) ==
    IF key \in DOMAIN cache /\ cache[key].text # <<>>
    THEN <<JSONparse(cache[key].text)>>
    ELSE <<>>

\* The cache after cache.set(key, JSON.stringify(data), { ttl }).
setInCache(key, data, ttl) ==
    [k \in DOMAIN cache \cup {key} |->
        IF k = key THEN [text |-> JSONstringify(data), ttl |-> ttl]
        ELSE cache[k]]

\* The cache after every key of keys is deleted.
invalidateCache(keys) == [k \in DOMAIN cache \ keys |-> cache[k]]

-----------------------------------------------------------------------------
(* Document store *)

\* The k-th ObjectId the store hands out: a letter a..f repeated, and from
\* the seventh on a digit in the last place.
OidTable ==
    [k \in 1..60 |->
        [i \in 1..ObjectIdHexLen |->
            IF k > 6 /\ i = ObjectIdHexLen
            THEN Digit[((k - 1) \div 6) + 1]
            ELSE Lower[((k - 1) % 6) + 1]]]
Oid(k) == OidTable[k]

\* A document the collection holds before the first call.
SeedOid == Oid(1)
\* Employee.views is optional: a document may lack the field.
NoViews == -1

SeedDoc ==
    [name |-> <<"A", "l">>, position |-> <<"D", "e", "v">>,
     department |-> <<"E", "n", "g">>, salary |-> 95000, views |-> 0]

\* The documents seedData inserts (lines 139-188), strings shortened.
SeedDepartments ==
    <<[name |-> <<"E", "n", "g">>, floor |-> 3],
      [name |-> <<"M", "k", "t">>, floor |-> 2],
      [name |-> <<"H", "R">>, floor |-> 1]>>

SeedEmployees ==
    <<SeedDoc,
      [name |-> <<"B", "o", "b">>, position |-> <<"D", "e", "v">>,
       department |-> <<"E", "n", "g">>, salary |-> 80000, views |-> 0],
      [name |-> <<"C", "a", "l">>, position |-> <<"M", "g", "r">>,
       department |-> <<"M", "k", "t">>, salary |-> 75000, views |-> 0],
      [name |-> <<"D", "a", "v">>, position |-> <<"S", "t", "r">>,
       department |-> <<"M", "k", "t">>, salary |-> 65000, views |-> 0],
      [name |-> <<"E", "m">>, position |-> <<"D", "i", "r">>,
       department |-> <<"H", "R">>, salary |-> 85000, views |-> 0],
      [name |-> <<"F", "r", "a">>, position |-> <<"D", "e", "v">>,
       department |-> <<"E", "n", "g">>, salary |-> 78000, views |-> 0]>>

\* insertMany(docs) on a collection: every document gets an identity no
\* document of the collection has.
InsertMany(coll, docs) ==
    LET n == Cardinality(DOMAIN coll)
        new == {Oid(n + i) : i \in DOMAIN docs}
    IN  [o \in DOMAIN coll \cup new |->
            IF o \in DOMAIN coll THEN coll[o]
            ELSE docs[CHOOSE i \in DOMAIN docs : Oid(n + i) = o]]

\* Faulty variant of InsertedId: the store hands out the same identity again.
InsertedIdRepeated == Oid(1)

\* insertOne assigns an identity no document has.
InsertedId == Oid(Cardinality(DOMAIN store) + 1)

\* The resolvers' projection of a document to the Employee type.
ToEmployee(oid, doc) ==
    [id |-> ObjectIdToString(oid), name |-> doc.name,
     position |-> doc.position, department |-> doc.department,
     salary |-> doc.salary,
     views |-> IF doc.views = NoViews THEN 0 ELSE doc.views]

\* Faulty variant of FindAllSorted: find({}).toArray() without the sort.
FindAllUnsorted ==
    LET n == Cardinality(DOMAIN store)
        orders == {f \in [1..n -> DOMAIN store] :
                      \A i, j \in 1..n : i # j => f[i] # f[j]}
    IN  {[i \in 1..n |-> ToEmployee(f[i], store[f[i]])] : f \in orders}

\* find({}).sort({ name: 1 }).toArray() mapped to Employee: every document
\* once, names ascending; the order among equal names is the store's choice.
FindAllSorted ==
    LET n == Cardinality(DOMAIN store)
        orders == {f \in [1..n -> DOMAIN store] :
                      /\ \A i, j \in 1..n : i # j => f[i] # f[j]
                      /\ \A i \in 1..(n - 1) :
                            StrLeq(store[f[i]].name, store[f[i + 1]].name)}
    IN  {[i \in 1..n |-> ToEmployee(f[i], store[f[i]])] : f \in orders}

\* The orders in which a cursor without a sort may return the documents ids.
Orderings(ids) ==
    LET n == Cardinality(ids)
    IN  {f \in [1..n -> ids] : \A i, j \in 1..n : i # j => f[i] # f[j]}

\* Faulty variant of FindByDepartment: the argument is trimmed before it is
\* compared.
FindByDepartmentTrimmed(department) ==
    LET ids == {o \in DOMAIN store : store[o].department = trim(department)}
    IN  {[i \in DOMAIN f |-> ToEmployee(f[i], store[f[i]])] :
            f \in Orderings(ids)}

\* find({ department }).toArray() mapped to Employee: the documents whose
\* department is the given string, in the store's order.
FindByDepartment(department) ==
    LET ids == {o \in DOMAIN store : store[o].department = department}
    IN  {[i \in DOMAIN f |-> ToEmployee(f[i], store[f[i]])] :
            f \in Orderings(ids)}

\* The resolvers' projection of a document to the Department type.
ToDepartment(oid, doc) ==
    [id |-> ObjectIdToString(oid), name |-> doc.name, floor |-> doc.floor]

\* departments.find({}).sort({ name: 1 }).toArray() mapped to Department.
FindDepartmentsSorted ==
    LET sorted == {f \in Orderings(DOMAIN departments) :
                      \A i \in 1..(Len(f) - 1) :
                          StrLeq(departments[f[i]].name,
                                 departments[f[i + 1]].name)}
    IN  {[i \in DOMAIN f |-> ToDepartment(f[i], departments[f[i]])] :
            f \in sorted}

\* Faulty variant of FindOne: the filter names no _id, so the first document of the
\* collection answers.
FindOneUnfiltered(oid) ==
    IF oid \in DOMAIN store
    THEN <<ToEmployee(SeedOid, store[SeedOid])>>
    ELSE <<>>

\* findOne({ _id }): <<>> when no document matches.
FindOne(oid) ==
    IF oid \in DOMAIN store THEN <<ToEmployee(oid, store[oid])>> ELSE <<>>

\* Faulty variants of IncViews: a read-modify-write of the views the caller read,
\* and an increment of the wrong sign.
IncViewsFromSeen(doc, seen) == [doc EXCEPT !.views = seen.views + 1]
IncViewsDown(doc, seen) == [doc EXCEPT !.views = @ - 1]

\* updateOne({ _id }, { $inc: { views: 1 } }) on the stored document;
\* seen is what the caller's earlier findOne returned, which $inc ignores.
\* $inc sets a field the document lacks to the increment.
IncViews(doc, seen) ==
    [doc EXCEPT !.views = IF @ = NoViews THEN 1 ELSE @ + 1]

-----------------------------------------------------------------------------
(* Requests *)

Req == 1..NReq

NoArgs == [name |-> <<>>, position |-> <<>>, department |-> <<>>, salary |-> 0]

Idle == [op |-> "none", pc |-> "idle", id |-> <<>>, args |-> NoArgs, rows |-> <<>>]

\* A resolver that returned data, and one whose catch block rethrew
\* `${prefix}${message}`.
\* Faulty variant of formatError: every error is replaced by one opaque message.
formatErrorOpaque(error) ==
    [message |-> <<"", "Internal server error">>,
     code |-> "INTERNAL_SERVER_ERROR"]

\* A response carries the message and extensions.code formatError gives it.
\* The resolvers throw plain Error objects, which carry no extensions.code
\* of their own ("" here).
formatError(error) ==
    [message |-> error.message,
     code |-> IF error.code # "" THEN error.code ELSE "INTERNAL_SERVER_ERROR"]

Data(d) == [kind |-> "data", data |-> d, message |-> <<>>, code |-> ""]
Failure(prefix, message) ==
    LET formatted == formatError([message |-> <<prefix, message>>, code |-> ""])
    IN  [kind |-> "error", data |-> <<>>, message |-> formatted.message,
         code |-> formatted.code]

NoOut ==
    [op |-> "none", id |-> <<>>, args |-> NoArgs,
     resp |-> [kind |-> "none", data |-> <<>>, message |-> <<>>, code |-> ""]]

\* The call enters its first await.
Begin(r, op, id, args, pc) ==
    /\ out = NoOut
    /\ req' = [req EXCEPT ![r] = [Idle EXCEPT !.op = op, !.pc = pc,
                                             !.id = id, !.args = args]]
    /\ out' = NoOut
    /\ UNCHANGED <<dbvars, clientvars, monitorvars>>

\* The call resumes after an await and enters the next one.
Goto(r, pc, rows) ==
    /\ out = NoOut
    /\ req' = [req EXCEPT ![r].pc = pc, ![r].rows = rows]
    /\ out' = NoOut
    /\ UNCHANGED <<dbvars, clientvars, monitorvars>>

\* The call returns or throws before its first await.
Reject(r, op, id, args, resp) ==
    /\ out = NoOut
    /\ req' = req
    /\ out' = [op |-> op, id |-> id, args |-> args, resp |-> resp]
    /\ UNCHANGED <<dbvars, clientvars, monitorvars>>

\* The call returns or throws after an await.
Finish(r, resp) ==
    /\ out = NoOut
    /\ req' = [req EXCEPT ![r] = Idle]
    /\ out' = [op |-> req[r].op, id |-> req[r].id, args |-> req[r].args,
               resp |-> resp]
    /\ UNCHANGED <<dbvars, clientvars, monitorvars>>

At(r, op, pc) == req[r].op = op /\ req[r].pc = pc

\* A call is served in the first free slot.
Free(r) ==
    /\ req[r].pc = "idle"
    /\ \A q \in Req : q < r => req[q].pc # "idle"

-----------------------------------------------------------------------------
(* Query.getAllEmployees *)

CallGetAllEmployees(r) ==
    /\ Free(r)
    /\ LET cached == getFromCache(CACHE_KEYS_EMPLOYEES)
       IN  IF cached # <<>>
           THEN Reject(r, "getAllEmployees", <<>>, NoArgs, Data(cached[1]))
           ELSE Begin(r, "getAllEmployees", <<>>, NoArgs, "find")
    /\ UNCHANGED <<store, cache, hist>>

GetAllEmployeesFind(r) ==
    /\ At(r, "getAllEmployees", "find")
    /\ \E result \in FindAllSorted :
          Goto(r, "set", result)
    /\ UNCHANGED <<store, cache, hist>>

GetAllEmployeesSet(r) ==
    /\ At(r, "getAllEmployees", "set")
    /\ cache' = setInCache(CACHE_KEYS_EMPLOYEES, req[r].rows, DefaultTtl)
    /\ Finish(r, Data(req[r].rows))
    /\ UNCHANGED <<store, hist>>

-----------------------------------------------------------------------------
(* Query.getEmployeeDetails *)

\* Faulty variant of CallGetEmployeeDetails: the id is not checked.
CallGetEmployeeDetailsUnchecked(r, id) ==
    /\ Free(r)
    /\ LET cached == getFromCache(CACHE_KEYS_EMPLOYEE_DETAILS(id))
       IN  IF cached # <<>>
           THEN Reject(r, "getEmployeeDetails", id, NoArgs,
                       Data(<<cached[1]>>))
           ELSE Begin(r, "getEmployeeDetails", id, NoArgs, "findOne")
    /\ UNCHANGED <<store, cache, hist>>

CallGetEmployeeDetails(r, id) ==
    /\ Free(r)
    /\ IF ~ObjectIdIsValid(id)
       THEN Reject(r, "getEmployeeDetails", id, NoArgs,
                   Failure("Error fetching employee: ",
                           "Invalid employee ID format"))
       ELSE LET cached == getFromCache(CACHE_KEYS_EMPLOYEE_DETAILS(id))
            IN  IF cached # <<>>
                THEN Reject(r, "getEmployeeDetails", id, NoArgs,
                            Data(<<cached[1]>>))
                ELSE Begin(r, "getEmployeeDetails", id, NoArgs, "findOne")
    /\ UNCHANGED <<store, cache, hist>>

\* Faulty variant of GetEmployeeDetailsFindOne: a miss of the store is
\* remembered in the cache as an employee without name.
GetEmployeeDetailsFindOneCachingMiss(r) ==
    /\ At(r, "getEmployeeDetails", "findOne")
    /\ LET employee == FindOne(NewObjectId(req[r].id))
       IN  IF employee = <<>>
           THEN /\ cache' = setInCache(
                               CACHE_KEYS_EMPLOYEE_DETAILS(req[r].id),
                               ToEmployee(req[r].id,
                                          [SeedDoc EXCEPT !.name = <<>>]),
                               DetailsTtl)
                /\ Finish(r, Failure("Error fetching employee: ",
                                     "Employee not found"))
           ELSE /\ cache' = cache
                /\ Goto(r, "set", employee)
    /\ UNCHANGED <<store, hist>>

GetEmployeeDetailsFindOne(r) ==
    /\ At(r, "getEmployeeDetails", "findOne")
    /\ LET employee == FindOne(NewObjectId(req[r].id))
       IN  IF employee = <<>>
           THEN Finish(r, Failure("Error fetching employee: ",
                                  "Employee not found"))
           ELSE Goto(r, "set", employee)
    /\ UNCHANGED <<store, cache, hist>>

GetEmployeeDetailsSet(r) ==
    /\ At(r, "getEmployeeDetails", "set")
    /\ cache' = setInCache(CACHE_KEYS_EMPLOYEE_DETAILS(req[r].id),
                           req[r].rows[1], DetailsTtl)
    /\ Finish(r, Data(req[r].rows))
    /\ UNCHANGED <<store, hist>>

-----------------------------------------------------------------------------
(* Query.getEmployeesByDepartment *)

CallGetEmployeesByDepartment(r, department) ==
    /\ Free(r)
    /\ Begin(r, "getEmployeesByDepartment", department, NoArgs, "find")
    /\ UNCHANGED <<store, cache, hist>>

GetEmployeesByDepartmentFind(r) ==
    /\ At(r, "getEmployeesByDepartment", "find")
    /\ \E result \in FindByDepartment(req[r].id) :
          Finish(r, Data(result))
    /\ UNCHANGED <<store, cache, hist>>

-----------------------------------------------------------------------------
(* Query.getDepartments *)

CallGetDepartments(r) ==
    /\ Free(r)
    /\ LET cached == getFromCache(CACHE_KEYS_DEPARTMENTS)
       IN  IF cached # <<>>
           THEN Reject(r, "getDepartments", <<>>, NoArgs, Data(cached[1]))
           ELSE Begin(r, "getDepartments", <<>>, NoArgs, "find")
    /\ UNCHANGED <<store, cache, hist>>

GetDepartmentsFind(r) ==
    /\ At(r, "getDepartments", "find")
    /\ \E result \in FindDepartmentsSorted :
          Goto(r, "set", result)
    /\ UNCHANGED <<store, cache, hist>>

GetDepartmentsSet(r) ==
    /\ At(r, "getDepartments", "set")
    /\ cache' = setInCache(CACHE_KEYS_DEPARTMENTS, req[r].rows, DepartmentsTtl)
    /\ Finish(r, Data(req[r].rows))
    /\ UNCHANGED <<store, hist>>

-----------------------------------------------------------------------------
(* Mutation.addEmployee *)

\* Faulty variant of AddEmployeeValidation: the salary limits are exclusive.
AddEmployeeValidationExclusive(args) ==
    IF args.name = <<>> \/ Len(trim(args.name)) < 2
    THEN <<"Name must be at least 2 characters">>
    ELSE IF args.position = <<>> \/ Len(trim(args.position)) < 2
    THEN <<"Position must be at least 2 characters">>
    ELSE IF args.department = <<>> \/ Len(trim(args.department)) = 0
    THEN <<"Department is required">>
    ELSE IF args.salary <= 1000 \/ args.salary >= 1000000
    THEN <<"Salary must be between $1,000 and $1,000,000">>
    ELSE <<>>

\* The validation of addEmployee: <<>> when every check passes, else the
\* message of the first check that throws.
AddEmployeeValidation(args) ==
    IF args.name = <<>> \/ Len(trim(args.name)) < 2
    THEN <<"Name must be at least 2 characters">>
    ELSE IF args.position = <<>> \/ Len(trim(args.position)) < 2
    THEN <<"Position must be at least 2 characters">>
    ELSE IF args.department = <<>> \/ Len(trim(args.department)) = 0
    THEN <<"Department is required">>
    ELSE IF args.salary < 1000 \/ args.salary > 1000000
    THEN <<"Salary must be between $1,000 and $1,000,000">>
    ELSE <<>>

\* Faulty variant of NewEmployee: the strings are stored as given.
NewEmployeeUntrimmed(args) ==
    [name |-> args.name, position |-> args.position,
     department |-> args.department, salary |-> args.salary, views |-> 0]

\* newEmployee.  parseFloat(salary.toString()) gives back the number.
NewEmployee(args) ==
    [name |-> trim(args.name), position |-> trim(args.position),
     department |-> trim(args.department), salary |-> args.salary,
     views |-> 0]

\* result: { id: insert.insertedId.toString(), ...newEmployee }.
AddEmployeeResult(insertedId, newEmployee) ==
    [id |-> ObjectIdToString(insertedId), name |-> newEmployee.name,
     position |-> newEmployee.position,
     department |-> newEmployee.department,
     salary |-> newEmployee.salary, views |-> newEmployee.views]

\* The keys addEmployee invalidates.
AddEmployeeInvalidated(args) ==
    {CACHE_KEYS_EMPLOYEES, CACHE_KEYS_EMPLOYEES_BY_DEPT(args.department)}

\* addEmployee calls whose insertOne has not yet reached the store.
PendingInserts ==
    Cardinality({r \in Req : At(r, "addEmployee", "insertOne")})

\* Faulty variant of CallAddEmployee: the keys are invalidated before the checks.
CallAddEmployeeInvalidatesFirst(r, args) ==
    /\ Free(r)
    /\ cache' = invalidateCache(AddEmployeeInvalidated(args))
    /\ LET invalid == AddEmployeeValidation(args)
       IN  IF invalid # <<>>
           THEN Reject(r, "addEmployee", <<>>, args,
                       Failure("Error adding employee: ", invalid[1]))
           ELSE /\ Cardinality(DOMAIN store) + PendingInserts < MaxEmployees
                /\ Begin(r, "addEmployee", <<>>, args, "insertOne")
    /\ UNCHANGED <<store, hist>>

CallAddEmployee(r, args) ==
    /\ Free(r)
    /\ LET invalid == AddEmployeeValidation(args)
       IN  IF invalid # <<>>
           THEN Reject(r, "addEmployee", <<>>, args,
                       Failure("Error adding employee: ", invalid[1]))
           ELSE /\ Cardinality(DOMAIN store) + PendingInserts < MaxEmployees
                /\ Begin(r, "addEmployee", <<>>, args, "insertOne")
    /\ UNCHANGED <<store, cache, hist>>

AddEmployeeInsertOne(r) ==
    /\ At(r, "addEmployee", "insertOne")
    /\ LET newEmployee == NewEmployee(req[r].args)
           insertedId == InsertedId
       IN  /\ store' = [o \in DOMAIN store \cup {insertedId} |->
                           IF o = insertedId THEN newEmployee ELSE store[o]]
           /\ Goto(r, "invalidate",
                   <<AddEmployeeResult(insertedId, newEmployee)>>)
    /\ UNCHANGED <<cache, hist>>

AddEmployeeInvalidate(r) ==
    /\ At(r, "addEmployee", "invalidate")
    /\ cache' = invalidateCache(AddEmployeeInvalidated(req[r].args))
    /\ Finish(r, Data(req[r].rows))
    /\ hist' = [hist EXCEPT !.created = @ \cup {req[r].rows[1]}]
    /\ UNCHANGED store

-----------------------------------------------------------------------------
(* Mutation.incrementView *)

\* The document incrementView(id) addresses: new ObjectId(id.trim()).
IncrementViewTarget(id) == NewObjectId(trim(id))

\* The keys incrementView invalidates; result is the re-read document.
IncrementViewInvalidated(id, result) ==
    {CACHE_KEYS_EMPLOYEE_DETAILS(id), CACHE_KEYS_EMPLOYEES,
     CACHE_KEYS_EMPLOYEES_BY_DEPT(result.department)}

\* incrementView calls on oid whose $inc has not yet reached the store.
PendingIncrements(oid) ==
    Cardinality({r \in Req :
        /\ req[r].op = "incrementView"
        /\ req[r].pc \in {"findOne", "updateOne"}
        /\ IncrementViewTarget(req[r].id) = oid})

CallIncrementView(r, id) ==
    /\ Free(r)
    /\ LET cleanId == trim(id)
       IN  IF ~ObjectIdIsValid(cleanId)
           THEN Reject(r, "incrementView", id, NoArgs,
                       Failure("Error incrementing view: ",
                               "Invalid employee ID format"))
           ELSE LET _id == NewObjectId(cleanId)
                IN  /\ _id \in DOMAIN store =>
                          store[_id].views + PendingIncrements(_id) < MaxViews
                    /\ Begin(r, "incrementView", id, NoArgs, "findOne")
    /\ UNCHANGED <<store, cache, hist>>

\* Faulty variant of IncrementViewFindOne: the keys are invalidated before the
\* existence check.
IncrementViewFindOneInvalidating(r) ==
    /\ At(r, "incrementView", "findOne")
    /\ cache' = invalidateCache({CACHE_KEYS_EMPLOYEE_DETAILS(req[r].id),
                                 CACHE_KEYS_EMPLOYEES})
    /\ LET employee == FindOne(IncrementViewTarget(req[r].id))
       IN  IF employee = <<>>
           THEN Finish(r, Failure("Error incrementing view: ",
                                  "Employee not found"))
           ELSE Goto(r, "updateOne", employee)
    /\ UNCHANGED <<store, hist>>

IncrementViewFindOne(r) ==
    /\ At(r, "incrementView", "findOne")
    /\ LET employee == FindOne(IncrementViewTarget(req[r].id))
       IN  IF employee = <<>>
           THEN Finish(r, Failure("Error incrementing view: ",
                                  "Employee not found"))
           ELSE Goto(r, "updateOne", employee)
    /\ UNCHANGED <<store, cache, hist>>

IncrementViewUpdateOne(r) ==
    /\ At(r, "incrementView", "updateOne")
    /\ LET _id == IncrementViewTarget(req[r].id)
       IN  store' = [store EXCEPT ![_id] = IncViews(@, req[r].rows[1])]
    /\ Goto(r, "findOne2", <<>>)
    /\ UNCHANGED <<cache, hist>>

IncrementViewFindOne2(r) ==
    /\ At(r, "incrementView", "findOne2")
    /\ LET result == FindOne(IncrementViewTarget(req[r].id))
       IN  IF result = <<>>
           THEN Finish(r, Failure("Error incrementing view: ",
                                  "Failed to update employee views"))
           ELSE Goto(r, "invalidate", result)
    /\ UNCHANGED <<store, cache, hist>>

\* The completed incrementView calls on oid: how many, and the views the
\* last of them returned.
Incremented(oid) ==
    IF oid \in DOMAIN hist.inc THEN hist.inc[oid] ELSE [n |-> 0, views |-> 0]

IncrementViewInvalidate(r) ==
    /\ At(r, "incrementView", "invalidate")
    /\ LET result == req[r].rows[1]
           oid == NewObjectId(result.id)
       IN  /\ cache' = invalidateCache(
                           IncrementViewInvalidated(req[r].id, result))
           /\ Finish(r, Data(<<result>>))
           /\ hist' = [hist EXCEPT !.inc =
                         [o \in DOMAIN hist.inc \cup {oid} |->
                            IF o = oid
                            THEN [n |-> Incremented(oid).n + 1,
                                  views |-> result.views]
                            ELSE hist.inc[o]]]
    /\ UNCHANGED store

-----------------------------------------------------------------------------
(* Cache failures: cache.get, cache.set or cache.delete throws *)

\* getFromCache catches the error of cache.get and returns null: the
\* resolver goes on as on a miss, whatever the cache holds.
CallGetAllEmployeesGetThrows(r) ==
    /\ Free(r)
    /\ Begin(r, "getAllEmployees", <<>>, NoArgs, "find")
    /\ UNCHANGED <<store, cache, hist>>

CallGetEmployeeDetailsGetThrows(r, id) ==
    /\ Free(r)
    /\ ObjectIdIsValid(id)
    /\ Begin(r, "getEmployeeDetails", id, NoArgs, "findOne")
    /\ UNCHANGED <<store, cache, hist>>

CallGetDepartmentsGetThrows(r) ==
    /\ Free(r)
    /\ Begin(r, "getDepartments", <<>>, NoArgs, "find")
    /\ UNCHANGED <<store, cache, hist>>

\* Faulty variant of GetAllEmployeesSetThrows: setInCache lets the error of
\* cache.set through to the resolver's catch.
GetAllEmployeesSetRethrows(r) ==
    /\ At(r, "getAllEmployees", "set")
    /\ Finish(r, Failure("Failed to fetch employees", ""))
    /\ UNCHANGED <<store, cache, hist>>

\* setInCache catches the error of cache.set: nothing is stored and the
\* resolver returns its result.
GetAllEmployeesSetThrows(r) ==
    /\ At(r, "getAllEmployees", "set")
    /\ Finish(r, Data(req[r].rows))
    /\ UNCHANGED <<store, cache, hist>>

GetEmployeeDetailsSetThrows(r) ==
    /\ At(r, "getEmployeeDetails", "set")
    /\ Finish(r, Data(req[r].rows))
    /\ UNCHANGED <<store, cache, hist>>

GetDepartmentsSetThrows(r) ==
    /\ At(r, "getDepartments", "set")
    /\ Finish(r, Data(req[r].rows))
    /\ UNCHANGED <<store, cache, hist>>

\* invalidateCache catches the rejection of Promise.all: every cache.delete
\* was started, the keys whose delete threw stay, and the mutation returns
\* its result.
AddEmployeeInvalidateThrows(r) ==
    /\ At(r, "addEmployee", "invalidate")
    /\ \E deleted \in SUBSET AddEmployeeInvalidated(req[r].args) :
          /\ deleted # AddEmployeeInvalidated(req[r].args)
          /\ cache' = invalidateCache(deleted)
    /\ Finish(r, Data(req[r].rows))
    /\ hist' = [hist EXCEPT !.created = @ \cup {req[r].rows[1]}]
    /\ UNCHANGED store

IncrementViewInvalidateThrows(r) ==
    /\ At(r, "incrementView", "invalidate")
    /\ LET result == req[r].rows[1]
           oid == NewObjectId(result.id)
           keys == IncrementViewInvalidated(req[r].id, result)
       IN  /\ \E deleted \in SUBSET keys :
                 /\ deleted # keys
                 /\ cache' = invalidateCache(deleted)
           /\ Finish(r, Data(<<result>>))
           /\ hist' = [hist EXCEPT !.inc =
                         [o \in DOMAIN hist.inc \cup {oid} |->
                            IF o = oid
                            THEN [n |-> Incremented(oid).n + 1,
                                  views |-> result.views]
                            ELSE hist.inc[o]]]
    /\ UNCHANGED store

-----------------------------------------------------------------------------
(* Store failures: a collection operation rejects *)

\* The messages of the store's exceptions.
StoreErrors == {"connection closed", "E11000 duplicate key error"}

\* The catch blocks of the resolvers: getAllEmployees,
\* getEmployeesByDepartment and getDepartments throw a fixed message, the
\* other three append the message of the error they caught.
GetAllEmployeesFindThrows(r, error) ==
    /\ At(r, "getAllEmployees", "find")
    /\ Finish(r, Failure("Failed to fetch employees", ""))
    /\ UNCHANGED <<store, cache, hist>>

GetEmployeesByDepartmentFindThrows(r, error) ==
    /\ At(r, "getEmployeesByDepartment", "find")
    /\ Finish(r, Failure("Failed to fetch employees by department", ""))
    /\ UNCHANGED <<store, cache, hist>>

GetDepartmentsFindThrows(r, error) ==
    /\ At(r, "getDepartments", "find")
    /\ Finish(r, Failure("Failed to fetch departments", ""))
    /\ UNCHANGED <<store, cache, hist>>

GetEmployeeDetailsFindOneThrows(r, error) ==
    /\ At(r, "getEmployeeDetails", "findOne")
    /\ Finish(r, Failure("Error fetching employee: ", error))
    /\ UNCHANGED <<store, cache, hist>>

AddEmployeeInsertOneThrows(r, error) ==
    /\ At(r, "addEmployee", "insertOne")
    /\ Finish(r, Failure("Error adding employee: ", error))
    /\ UNCHANGED <<store, cache, hist>>

\* findOne, updateOne or the second findOne of incrementView rejects.
IncrementViewStoreThrows(r, error) ==
    /\ req[r].op = "incrementView"
    /\ req[r].pc \in {"findOne", "updateOne", "findOne2"}
    /\ Finish(r, Failure("Error incrementing view: ", error))
    /\ UNCHANGED <<store, cache, hist>>

-----------------------------------------------------------------------------
(* connectDB, seedData and ensureViewsField: the handler's context *)

\* connectDB up to its first await: the open connection is returned, or a
\* MongoClient is created and connect() awaited.
CallConnectDB(r) ==
    /\ Free(r)
    /\ IF cachedDb
       THEN Reject(r, "connectDB", <<>>, NoArgs, Data(<<>>))
       ELSE Begin(r, "connectDB", <<>>, NoArgs, "connect")
    /\ UNCHANGED <<store, cache, hist>>

\* connect() resolved: cachedDb is assigned and seedData(cachedDb) starts.
ConnectDBConnect(r) ==
    /\ At(r, "connectDB", "connect")
    /\ out = NoOut
    /\ mongoClient' = mongoClient + 1
    /\ cachedDb' = TRUE
    /\ req' = [req EXCEPT ![r].pc = "countEmployees"]
    /\ out' = NoOut
    /\ UNCHANGED <<store, cache, hist, departments>>
    /\ UNCHANGED <<clientvars, monitorvars>>

SeedDataCountEmployees(r) ==
    /\ At(r, "connectDB", "countEmployees")
    /\ Goto(r, "countDepartments", <<Cardinality(DOMAIN store)>>)
    /\ UNCHANGED <<store, cache, hist>>

\* rows is <<employeeCount, departmentCount>>; seeding is skipped when either
\* is positive.
\* Faulty variant of SeedDataCountDepartments: seeding is skipped only when
\* both collections hold documents.
SeedDataCountDepartmentsBoth(r) ==
    /\ At(r, "connectDB", "countDepartments")
    /\ LET employeeCount == req[r].rows[1]
           departmentCount == Cardinality(DOMAIN departments)
       IN  IF employeeCount > 0 /\ departmentCount > 0
           THEN Goto(r, "ensureViewsField", <<employeeCount, departmentCount>>)
           ELSE Goto(r, "insertDepartments", <<employeeCount, departmentCount>>)
    /\ UNCHANGED <<store, cache, hist>>

SeedDataCountDepartments(r) ==
    /\ At(r, "connectDB", "countDepartments")
    /\ LET employeeCount == req[r].rows[1]
           departmentCount == Cardinality(DOMAIN departments)
       IN  IF employeeCount > 0 \/ departmentCount > 0
           THEN Goto(r, "ensureViewsField", <<employeeCount, departmentCount>>)
           ELSE Goto(r, "insertDepartments", <<employeeCount, departmentCount>>)
    /\ UNCHANGED <<store, cache, hist>>

SeedDataInsertDepartments(r) ==
    /\ At(r, "connectDB", "insertDepartments")
    /\ out = NoOut
    /\ departments' = InsertMany(departments, SeedDepartments)
    /\ req' = [req EXCEPT ![r].pc = "insertEmployees"]
    /\ out' = NoOut
    /\ UNCHANGED <<store, cache, hist, cachedDb, mongoClient>>
    /\ UNCHANGED <<clientvars, monitorvars>>

SeedDataInsertEmployees(r) ==
    /\ At(r, "connectDB", "insertEmployees")
    /\ store' = InsertMany(store, SeedEmployees)
    /\ Goto(r, "ensureViewsField", req[r].rows)
    /\ UNCHANGED <<cache, hist>>

\* updateMany({ views: { $exists: false } }, { $set: { views: 0 } }), after
\* which connectDB returns the handle.
EnsureViewsField(r) ==
    /\ At(r, "connectDB", "ensureViewsField")
    /\ store' = [o \in DOMAIN store |->
                    IF store[o].views = NoViews
                    THEN [store[o] EXCEPT !.views = 0]
                    ELSE store[o]]
    /\ Finish(r, Data(<<>>))
    /\ UNCHANGED <<cache, hist>>

\* updateMany rejects: ensureViewsField logs the error and connectDB returns
\* the handle.
EnsureViewsFieldThrows(r) ==
    /\ At(r, "connectDB", "ensureViewsField")
    /\ Finish(r, Data(<<>>))
    /\ UNCHANGED <<store, cache, hist>>

\* A store operation of seedData rejects: connectDB's catch block throws
\* "Database connection failed"; cachedDb stays assigned.
SeedDataThrows(r) ==
    /\ req[r].op = "connectDB"
    /\ req[r].pc \in {"countEmployees", "countDepartments",
                      "insertDepartments", "insertEmployees"}
    /\ Finish(r, Failure("", "Database connection failed"))
    /\ UNCHANGED <<store, cache, hist>>

-----------------------------------------------------------------------------
(* The cache's own removals *)

\* The caller takes the response; the service sends it before the event
\* loop runs any other continuation.
Deliver ==
    /\ out # NoOut
    /\ out' = NoOut
    /\ UNCHANGED <<store, cache, req, hist>>
    /\ UNCHANGED <<dbvars, clientvars, monitorvars>>

\* The cache drops an entry by itself: its ttl ran out, or the LRU made
\* room.
Evict(key) ==
    /\ out = NoOut
    /\ key \in DOMAIN cache
    /\ cache' = invalidateCache({key})
    /\ out' = NoOut
    /\ UNCHANGED <<store, req, hist>>
    /\ UNCHANGED <<dbvars, clientvars, monitorvars>>

-----------------------------------------------------------------------------
(* Inputs *)

UpperHex(oid) == [i \in DOMAIN oid |-> ToUpperChar(oid[i])]
Padded(s) == <<" ">> \o s \o <<" ">>

\* A well-formed id no document has, and the spec's malformed id.
MissingId == [i \in 1..ObjectIdHexLen |-> "0"]
MalformedId ==
    <<"n", "o", "t", "-", "a", "-", "v", "a", "l", "i", "d", "-", "i", "d">>

\* Callers learn ids from responses: the id strings tried are spellings of
\* the stored ids, a missing id and a malformed one.
IdInputs ==
    UNION {{oid, UpperHex(oid), Padded(oid)} : oid \in DOMAIN store}
        \cup {MissingId, MalformedId, Padded(MalformedId)}

NameInputs == {<<"B", "o">>, <<" ", "C", "y", " ">>, <<" ", "a", " ">>, <<>>}
PositionInputs == {<<"Q", "A">>, <<" ", "Q", "A">>, <<"x", " ">>}
DepartmentInputs == {<<"I", "T">>, <<" ", "I", "T", " ">>, <<" ">>, <<>>}
SalaryInputs == {999, 1000, 1000000, 1000001}

AddInputs ==
    [name : NameInputs, position : PositionInputs,
     department : DepartmentInputs, salary : SalaryInputs]

\* The inputs of the specifications that do not vary the spelling of the
\* arguments.
FewAddInputs ==
    {[name |-> <<"B", "o">>, position |-> <<"Q", "A">>,
      department |-> <<" ", "I", "T", " ">>, salary |-> 1000],
     [name |-> <<" ", "a", " ">>, position |-> <<"Q", "A">>,
      department |-> <<"I", "T">>, salary |-> 1000]}

FewIdInputs == DOMAIN store \cup {MissingId, MalformedId}

-----------------------------------------------------------------------------
(* PerformanceMonitor *)

\* private readonly maxMetrics = 1000: the capacity, kept small here.
maxMetrics == 3
\* clearOldMetrics keeps the metrics younger than one hour (3600000 ms);
\* time is counted in half hours.
OneHour == 2
\* The clock stops here, and so many metrics are recorded.
MaxNow == 3
MaxRecorded == 4

\* PerformanceMetrics: timestamp and cacheHit are kept, queryTime and
\* dataSize are not read by the two operations.
PerformanceMetrics == [timestamp : 0..MaxNow, cacheHit : BOOLEAN]

MonitorInit ==
    /\ performanceMonitor = [metrics |-> <<>>]
    /\ now = 0
    /\ recorded = <<>>

\* Array.prototype.slice(-n): the last n elements, all of them when there
\* are fewer.
sliceLast(s, n) ==
    IF Len(s) <= n THEN s ELSE SubSeq(s, Len(s) - n + 1, Len(s))

\* Faulty variant of sliceLast: slice(0, n), the first n elements.
sliceFirst(s, n) ==
    IF Len(s) <= n THEN s ELSE SubSeq(s, 1, n)

\* Faulty variant of recordMetric: the oldest metrics are kept.
recordMetricKeepingOldest(metric) ==
    /\ Len(recorded) < MaxRecorded
    /\ LET pushed == Append(performanceMonitor.metrics, metric)
       IN  performanceMonitor' =
               [metrics |-> IF Len(pushed) > maxMetrics
                            THEN sliceFirst(pushed, maxMetrics)
                            ELSE pushed]
    /\ recorded' = Append(recorded, metric)
    /\ UNCHANGED <<now, store, cache, req, out, hist, dbvars, clientvars>>

recordMetric(metric) ==
    /\ Len(recorded) < MaxRecorded
    /\ LET pushed == Append(performanceMonitor.metrics, metric)
       IN  performanceMonitor' =
               [metrics |-> IF Len(pushed) > maxMetrics
                            THEN sliceLast(pushed, maxMetrics)
                            ELSE pushed]
    /\ recorded' = Append(recorded, metric)
    /\ UNCHANGED <<now, store, cache, req, out, hist, dbvars, clientvars>>

clearOldMetrics ==
    /\ LET oneHourAgo == now - OneHour
           younger(m) == m.timestamp > oneHourAgo
       IN  performanceMonitor' =
               [metrics |-> SelectSeq(performanceMonitor.metrics, younger)]
    /\ UNCHANGED <<now, recorded, store, cache, req, out, hist, dbvars,
                   clientvars>>

\* Time passes.
Tick ==
    /\ now < MaxNow
    /\ now' = now + 1
    /\ UNCHANGED <<performanceMonitor, recorded, store, cache, req, out, hist,
                   dbvars, clientvars>>

-----------------------------------------------------------------------------
(* Browser *)

\* The strings of this part are the values of TLA+ strings, character by
\* character, except the employees' fields, which stay the sequences the
\* service works on.

\* InMemoryCache: the root query fields written so far.  <<>> is a field
\* not in the cache, <<v>> one that holds v; employee details are kept by
\* the id the query was made with.
EmptyCache ==
    [getAllEmployees |-> <<>>, getDepartments |-> <<>>,
     getEmployeeDetails |-> [id \in {} |-> SeedDoc]]

\* useState of the mounted page: the form's errors, the detail view's id,
\* the errors useQuery reports, by query.
NoErrors == [k \in {} |-> ""]

\* useState of an EmployeeRow, by the id of its employee.
Row(employee) ==
    [isPopupOpen |-> FALSE, views |-> employee.views, isDeleted |-> FALSE]

NoRows == [id \in {} |-> Row(SeedDoc)]

\* The detail view: not mounted (no id), or showing the employee of id with
\* the error its query reported last.
NoResponse == NoOut.resp
NoId == <<"-">>
NoDetail == [id |-> NoId, error |-> <<>>, failure |-> NoResponse]

LocalInit ==
    [errors |-> NoErrors, queryError |-> NoErrors, rows |-> NoRows,
     detail |-> NoDetail]

\* No page is loaded in the browser.
ClientInit ==
    /\ page = "none"
    /\ apollo = EmptyCache
    /\ net = <<>>
    /\ local = LocalInit

\* fetch rejected: the request or its response was lost.
NetworkError ==
    [kind |-> "network", data |-> <<>>, message |-> <<"", "Failed to fetch">>,
     code |-> ""]

\* An operation sent to /api/graphql; by is the call that sent it.
Request(op, id, args, by) ==
    [op |-> op, id |-> id, args |-> args, by |-> by, resp |-> NoResponse]

Remove(s, i) == SubSeq(s, 1, i - 1) \o SubSeq(s, i + 1, Len(s))

\* The requests of the queries a page's components watch end with the page.
QueryCalls == {"useQuery", "refetch", "refetchQueries"}

Unwatched(requests) ==
    LET watched(request) == request.by \notin QueryCalls
    IN  SelectSeq(requests, watched)

\* What the service does with a request when no other request interleaves:
\* the response, the collection and the result cache afterwards, and the
\* employee created.
Outcome(resp, employees, entries, created) ==
    [resp |-> resp, store |-> employees, cache |-> entries,
     created |-> created, incremented |-> <<>>]

RunGetAllEmployees ==
    LET cached == getFromCache(CACHE_KEYS_EMPLOYEES)
    IN  IF cached # <<>>
        THEN {Outcome(Data(cached[1]), store, cache, {})}
        ELSE {Outcome(Data(result), store,
                      setInCache(CACHE_KEYS_EMPLOYEES, result, DefaultTtl),
                      {}) : result \in FindAllSorted}

RunGetDepartments ==
    LET cached == getFromCache(CACHE_KEYS_DEPARTMENTS)
    IN  IF cached # <<>>
        THEN {Outcome(Data(cached[1]), store, cache, {})}
        ELSE {Outcome(Data(result), store,
                      setInCache(CACHE_KEYS_DEPARTMENTS, result,
                                 DepartmentsTtl),
                      {}) : result \in FindDepartmentsSorted}

RunAddEmployee(args) ==
    LET invalid == AddEmployeeValidation(args)
        newEmployee == NewEmployee(args)
        insertedId == InsertedId
        result == AddEmployeeResult(insertedId, newEmployee)
    IN  IF invalid # <<>>
        THEN {Outcome(Failure("Error adding employee: ", invalid[1]),
                      store, cache, {})}
        ELSE {Outcome(Data(<<result>>),
                      [o \in DOMAIN store \cup {insertedId} |->
                          IF o = insertedId THEN newEmployee ELSE store[o]],
                      invalidateCache(AddEmployeeInvalidated(args)),
                      {result})}

RunGetEmployeeDetails(id) ==
    LET cached == getFromCache(CACHE_KEYS_EMPLOYEE_DETAILS(id))
        employee == FindOne(NewObjectId(id))
    IN  IF ~ObjectIdIsValid(id)
        THEN {Outcome(Failure("Error fetching employee: ",
                              "Invalid employee ID format"),
                      store, cache, {})}
        ELSE IF cached # <<>>
        THEN {Outcome(Data(<<cached[1]>>), store, cache, {})}
        ELSE IF employee = <<>>
        THEN {Outcome(Failure("Error fetching employee: ",
                              "Employee not found"),
                      store, cache, {})}
        ELSE {Outcome(Data(employee), store,
                      setInCache(CACHE_KEYS_EMPLOYEE_DETAILS(id),
                                 employee[1], DetailsTtl),
                      {})}

RunIncrementView(id) ==
    LET _id == IncrementViewTarget(id)
        employee == FindOne(_id)
        updated == [store EXCEPT ![_id] = IncViews(@, employee[1])]
        result == ToEmployee(_id, updated[_id])
    IN  IF ~ObjectIdIsValid(trim(id))
        THEN {Outcome(Failure("Error incrementing view: ",
                              "Invalid employee ID format"),
                      store, cache, {})}
        ELSE IF employee = <<>>
        THEN {Outcome(Failure("Error incrementing view: ",
                              "Employee not found"),
                      store, cache, {})}
        ELSE {[Outcome(Data(<<result>>), updated,
                       invalidateCache(IncrementViewInvalidated(id, result)),
                       {})
               EXCEPT !.incremented = <<result>>]}

Run(request) ==
    CASE request.op = "GetAllEmployees" -> RunGetAllEmployees
      [] request.op = "GetDepartments" -> RunGetDepartments
      [] request.op = "AddEmployee" -> RunAddEmployee(request.args)
      [] request.op = "GetEmployeeDetails" ->
            RunGetEmployeeDetails(request.id)
      [] request.op = "IncrementView" -> RunIncrementView(request.id)

\* The message of the error a resolver throws when its store operation
\* rejects with error.
StoreFailure(request, error) ==
    CASE request.op = "GetAllEmployees" ->
            Failure("Failed to fetch employees", "")
      [] request.op = "GetDepartments" ->
            Failure("Failed to fetch departments", "")
      [] request.op = "AddEmployee" ->
            Failure("Error adding employee: ", error)
      [] request.op = "GetEmployeeDetails" ->
            Failure("Error fetching employee: ", error)
      [] request.op = "IncrementView" ->
            Failure("Error incrementing view: ", error)

\* The service answers a request.
Serve(i) ==
    /\ net[i].resp = NoResponse
    /\ net[i].op = "AddEmployee" => Cardinality(DOMAIN store) < MaxEmployees
    /\ net[i].op = "IncrementView" =>
          \A o \in DOMAIN store :
              o = IncrementViewTarget(net[i].id) => store[o].views < MaxViews
    /\ \E outcome \in Run(net[i]) :
          /\ store' = outcome.store
          /\ cache' = outcome.cache
          /\ hist' = [hist EXCEPT
                !.created = @ \cup outcome.created,
                !.inc = IF outcome.incremented = <<>> THEN @
                        ELSE LET result == outcome.incremented[1]
                                 oid == NewObjectId(result.id)
                             IN  [o \in DOMAIN @ \cup {oid} |->
                                    IF o = oid
                                    THEN [n |-> Incremented(oid).n + 1,
                                          views |-> result.views]
                                    ELSE @[o]]]
          /\ net' = [net EXCEPT ![i].resp = outcome.resp]
    /\ UNCHANGED <<req, out, dbvars, page, apollo, local, monitorvars>>

\* The service answers with the error of a failed store operation.
ServeStoreFailure(i, error) ==
    /\ net[i].resp = NoResponse
    /\ net' = [net EXCEPT ![i].resp = StoreFailure(net[i], error)]
    /\ UNCHANGED <<store, cache, req, out, hist, dbvars, page, apollo, local,
                   monitorvars>>

\* The request does not reach the service, or its response is lost.
NetworkFails(i) ==
    /\ net[i].resp = NoResponse
    /\ net' = [net EXCEPT ![i].resp = NetworkError]
    /\ UNCHANGED <<store, cache, req, out, hist, dbvars, page, apollo, local,
                   monitorvars>>

\* error.message of the error Apollo Client reports: the message of the
\* response's first error, or the message of the failed fetch.
ErrorMessage(resp) == resp.message[1] \o resp.message[2]

\* The root query field a query operation reads and writes.
FieldOf(op) ==
    CASE op = "GetAllEmployees" -> "getAllEmployees"
      [] op = "GetDepartments" -> "getDepartments"

\* useQuery with fetchPolicy cache-first, for a query without variables:
\* nothing is sent when the field is in the cache.
useQuery(op) ==
    IF apollo[FieldOf(op)] # <<>> THEN <<>>
    ELSE <<Request(op, <<>>, NoArgs, "useQuery")>>

\* The queries the components of a page watch.
ActiveQueries(p) ==
    CASE p = "home" -> <<"GetAllEmployees", "GetDepartments">>
      [] p = "add" -> <<"GetDepartments">>
      [] OTHER -> <<>>

RECURSIVE Flatten(_)
Flatten(ss) == IF ss = <<>> THEN <<>> ELSE Head(ss) \o Flatten(Tail(ss))

\* The page's components mount: each useQuery reads the cache or sends.
Mount(p) ==
    Flatten([k \in DOMAIN ActiveQueries(p) |-> useQuery(ActiveQueries(p)[k])])

\* client.refetchQueries / refetchQueries: 'active': every watched query is
\* sent again, whatever the cache holds.
RefetchActive(p) ==
    [k \in DOMAIN ActiveQueries(p) |->
        Request(ActiveQueries(p)[k], <<>>, NoArgs, "refetchQueries")]

\* HomePage renders the table once its two queries have loaded and the
\* employees query reports no error; a query sent again does not bring the
\* spinner back.
TableShown(p, requests, l) ==
    /\ p = "home"
    /\ \A i \in DOMAIN requests :
          requests[i].by = "useQuery" =>
              requests[i].op \notin {"GetAllEmployees", "GetDepartments"}
    /\ "GetAllEmployees" \notin DOMAIN l.queryError

\* EmployeeTable: one EmployeeRow per listed employee, keyed by id; a row
\* that stays in the list keeps its state, a new one starts afresh.
Rows(list, rows) ==
    [id \in {list[i].id : i \in DOMAIN list} |->
        IF id \in DOMAIN rows THEN rows[id]
        ELSE Row(list[CHOOSE i \in DOMAIN list : list[i].id = id])]

\* The components on screen after a render: the rows of the table, and the
\* detail view while it is the page or the popup of a row.
Rerender(p, a, requests, l) ==
    LET rows == IF ~TableShown(p, requests, l) THEN NoRows
                ELSE IF a.getAllEmployees = <<>> THEN NoRows
                ELSE Rows(a.getAllEmployees[1], l.rows)
        popup == \E id \in DOMAIN rows :
                    rows[id].isPopupOpen /\ ~rows[id].isDeleted
    IN  [l EXCEPT !.rows = rows,
                  !.detail = IF p = "detail" \/ popup THEN @ ELSE NoDetail]

\* The query of an unmounted detail view is torn down.
WithoutDetailQueries(requests) ==
    LET kept(request) ==
            ~(request.op = "GetEmployeeDetails" /\ request.by \in QueryCalls)
    IN  SelectSeq(requests, kept)

\* The browser after a handler ran: the page p, the client cache a, the
\* requests in flight and the components' state l, rendered.
After(p, a, requests, l) ==
    LET rendered == Rerender(p, a, requests, l)
    IN  /\ page' = p
        /\ apollo' = a
        /\ local' = rendered
        /\ net' = IF rendered.detail.id = NoId
                  THEN WithoutDetailQueries(requests)
                  ELSE requests

\* The user opens the application at the list or at the form.
Load(p) ==
    /\ page = "none"
    /\ After(p, apollo, Mount(p), LocalInit)
    /\ UNCHANGED <<store, cache, req, out, hist, dbvars, monitorvars>>

\* The link to /add-employee on the list, and the form's Back button.  The
\* user waits for a submission or a popup to finish first.
Navigate(from, to) ==
    /\ page = from
    /\ \A i \in DOMAIN net : net[i].by \notin {"mutate", "fetch"}
    /\ local.detail.id = NoId
    /\ After(to, apollo, Unwatched(net) \o Mount(to), LocalInit)
    /\ UNCHANGED <<store, cache, req, out, hist, dbvars, monitorvars>>

\* The response of a watched query arrives: with errorPolicy 'all' data is
\* written to the cache and an error is handed to the component.
QueryResult(i) ==
    /\ net[i].by \in QueryCalls
    /\ net[i].op \in {"GetAllEmployees", "GetDepartments"}
    /\ net[i].resp # NoResponse
    /\ IF net[i].resp.kind = "data"
       THEN After(page,
                  [apollo EXCEPT ![FieldOf(net[i].op)] =
                                     <<net[i].resp.data>>],
                  Remove(net, i),
                  [local EXCEPT !.queryError =
                      [k \in DOMAIN @ \ {net[i].op} |-> @[k]]])
       ELSE After(page, apollo, Remove(net, i),
                  [local EXCEPT !.queryError =
                      [k \in DOMAIN @ \cup {net[i].op} |->
                          IF k = net[i].op
                          THEN ErrorMessage(net[i].resp) ELSE @[k]]])
    /\ UNCHANGED <<store, cache, req, out, hist, dbvars, monitorvars>>

-----------------------------------------------------------------------------
(* The creation form *)

\* The text of the salary input: empty, not a number, or the digits of n.
EmptyText == [kind |-> "empty", value |-> 0]
Letters == [kind |-> "letters", value |-> 0]
Digits(n) == [kind |-> "digits", value |-> n]

\* parseFloat of the input's text.
parseFloat(text) ==
    [isNaN |-> text.kind # "digits", value |-> text.value]

\* The options of the department select: the empty one and the names the
\* departments query returned.
DepartmentOptions ==
    {<<>>} \cup
    (IF apollo.getDepartments = <<>> THEN {}
     ELSE {apollo.getDepartments[1][i].name :
              i \in DOMAIN apollo.getDepartments[1]})

FormNames == {<<"B", "o">>, <<" ", "C", "y", " ">>, <<" ", "a", " ">>}
FormSalaries == {EmptyText, Letters, Digits(999), Digits(50000)}

\* What the user can have typed when the form is submitted.
FormData ==
    [name : FormNames, position : {<<"Q", "A">>},
     department : DepartmentOptions, salary : FormSalaries]

\* validate(): the messages by field; the form is valid when there is none.
validate(formData) ==
    LET name ==
            IF trim(formData.name) = <<>> THEN <<"Name is required">>
            ELSE IF Len(trim(formData.name)) < 2
            THEN <<"Name must be at least 2 characters">>
            ELSE <<>>
        position ==
            IF trim(formData.position) = <<>>
            THEN <<"Position is required">>
            ELSE IF Len(trim(formData.position)) < 2
            THEN <<"Position must be at least 2 characters">>
            ELSE <<>>
        department ==
            IF formData.department = <<>> THEN <<"Department is required">>
            ELSE <<>>
        salaryValue == parseFloat(formData.salary)
        salary ==
            IF formData.salary = EmptyText THEN <<"Salary is required">>
            ELSE IF salaryValue.isNaN \/ salaryValue.value <= 0
            THEN <<"Salary must be a positive number">>
            ELSE IF salaryValue.value < 1000
            THEN <<"Salary must be at least $1,000">>
            ELSE IF salaryValue.value > 1000000
            THEN <<"Salary cannot exceed $1,000,000">>
            ELSE <<>>
        found == [name |-> name, position |-> position,
                  department |-> department, salary |-> salary]
    IN  [k \in {f \in DOMAIN found : found[f] # <<>>} |-> found[k][1]]

\* The variables handleSubmit passes to the mutation.
Variables(formData) ==
    [name |-> trim(formData.name), position |-> trim(formData.position),
     department |-> formData.department,
     salary |-> parseFloat(formData.salary).value]

MutationInFlight(requests) ==
    \E i \in DOMAIN requests : requests[i].by = "mutate"

\* The form is rendered once the departments query has settled.
FormRendered ==
    /\ page = "add"
    /\ \A i \in DOMAIN net : net[i].by \notin QueryCalls

\* handleSubmit up to its await: an invalid form shows its messages and
\* sends nothing.
handleSubmit(formData) ==
    /\ FormRendered
    /\ ~MutationInFlight(net)
    /\ LET newErrors == validate(formData)
       IN  /\ local' = [local EXCEPT !.errors = newErrors]
           /\ net' = IF DOMAIN newErrors # {} THEN net
                     ELSE Append(net, Request("AddEmployee", <<>>,
                                              Variables(formData), "mutate"))
    /\ UNCHANGED <<page, apollo>>
    /\ UNCHANGED <<store, cache, req, out, hist, dbvars, monitorvars>>

\* router.push('/') after the awaited mutation: the list page mounts.  The
\* mutation has asked for the active queries again before its promise
\* resolves.
MutationResolves(i) ==
    \E torn \in BOOLEAN :
        After("home", apollo,
              (IF torn THEN Unwatched(Remove(net, i))
               ELSE Remove(net, i) \o RefetchActive(page))
              \o Mount("home"),
              LocalInit)

\* The catch block of handleSubmit.
MutationRejects(i) ==
    /\ page' = page
    /\ local' = [local EXCEPT !.errors =
                    [k \in {"submit"} |-> ErrorMessage(net[i].resp)]]
    /\ net' = Remove(net, i)
    /\ apollo' = apollo

\* handleSubmit after its await.  With errorPolicy 'all' the promise of a
\* mutation the service answered resolves, with data or with errors; when
\* fetch fails the promise rejects, or resolves with the error, by the
\* version of the client library.
MutationSettles(i) ==
    /\ net[i].by = "mutate"
    /\ net[i].resp # NoResponse
    /\ IF net[i].resp.kind = "network"
       THEN MutationRejects(i) \/ MutationResolves(i)
       ELSE MutationResolves(i)
    /\ UNCHANGED <<store, cache, req, out, hist, dbvars, monitorvars>>

-----------------------------------------------------------------------------
(* The detail view and the rows of the table *)

\* The incrementView requests of the rows in flight are bounded.
MaxFetches == 1

\* String.prototype.includes.
includesWhole(s, sub) == s = sub

includes(s, sub) ==
    \E i \in 1..(Len(s) - Len(sub) + 1) : SubSeq(s, i, i + Len(sub) - 1) = sub

\* EmployeeDetailPage mounts with the id of its params: useQuery reads
\* cache-first, and the effect on id calls refetch, which always goes to
\* the service; the link layer may send one request for the two while the
\* first is in flight.
MountDetail(id) ==
    LET query == Request("GetEmployeeDetails", id, NoArgs, "useQuery")
        again == Request("GetEmployeeDetails", id, NoArgs, "refetch")
    IN  IF id \in DOMAIN apollo.getEmployeeDetails
        THEN {<<again>>}
        ELSE {<<query, again>>, <<query>>}

DetailLoading ==
    \E i \in DOMAIN net :
        net[i].op = "GetEmployeeDetails" /\ net[i].by \in QueryCalls

\* What EmployeeDetailPage renders.
Presentation ==
    IF local.detail.id = NoId
    THEN [view |-> "none", message |-> "", goBack |-> FALSE]
    ELSE IF DetailLoading
    THEN [view |-> "loading", message |-> "", goBack |-> FALSE]
    ELSE IF local.detail.error # <<>>
    THEN IF includes(local.detail.error[1], "Employee not found")
         THEN [view |-> "notFound", message |-> "", goBack |-> FALSE]
         ELSE [view |-> "error", message |-> local.detail.error[1],
               goBack |-> TRUE]
    ELSE IF local.detail.id \notin DOMAIN apollo.getEmployeeDetails
    THEN [view |-> "notFound", message |-> "", goBack |-> FALSE]
    ELSE [view |-> "detail", message |-> "", goBack |-> TRUE]

\* The user opens /employee/id.
LoadDetail(id) ==
    /\ page = "none"
    /\ \E requests \in MountDetail(id) :
          After("detail", apollo, requests,
                [LocalInit EXCEPT !.detail.id = id])
    /\ UNCHANGED <<store, cache, req, out, hist, dbvars, monitorvars>>

\* The response of the detail query arrives.
DetailResult(i) ==
    /\ net[i].by \in QueryCalls
    /\ net[i].op = "GetEmployeeDetails"
    /\ net[i].resp # NoResponse
    /\ IF net[i].resp.kind = "data"
       THEN After(page,
                  [apollo EXCEPT !.getEmployeeDetails =
                      [id \in DOMAIN @ \cup {net[i].id} |->
                          IF id = net[i].id THEN net[i].resp.data[1]
                          ELSE @[id]]],
                  Remove(net, i),
                  [local EXCEPT !.detail.error = <<>>,
                                !.detail.failure = NoResponse])
       ELSE After(page, apollo, Remove(net, i),
                  [local EXCEPT
                      !.detail.error = <<ErrorMessage(net[i].resp)>>,
                      !.detail.failure = net[i].resp])
    /\ UNCHANGED <<store, cache, req, out, hist, dbvars, monitorvars>>

\* window.history.back() from the Go Back button: the application is left.
handleGoBack ==
    /\ Presentation.goBack
    /\ page = "detail"
    /\ After("none", EmptyCache, <<>>, LocalInit)
    /\ UNCHANGED <<store, cache, req, out, hist, dbvars, monitorvars>>

RowRendered(id) ==
    id \in DOMAIN local.rows /\ ~local.rows[id].isDeleted

\* openPopup up to its await: the popup opens over the page with the
\* detail view in it, and incrementView is sent with fetch.
openPopup(id) ==
    /\ RowRendered(id)
    /\ local.detail.id = NoId
    /\ Cardinality({i \in DOMAIN net : net[i].by = "fetch"}) < MaxFetches
    /\ \E requests \in MountDetail(id) :
          After(page, apollo,
                Append(net, Request("IncrementView", id, NoArgs, "fetch"))
                \o requests,
                [local EXCEPT !.rows[id].isPopupOpen = TRUE,
                              !.detail = [NoDetail EXCEPT !.id = id]])
    /\ UNCHANGED <<store, cache, req, out, hist, dbvars, monitorvars>>

\* setIsPopupOpen(false) in the state of the row, when it is mounted.
Closed(l, id) ==
    IF id \in DOMAIN l.rows THEN [l EXCEPT !.rows[id].isPopupOpen = FALSE]
    ELSE l

closePopup(id) ==
    /\ id \in DOMAIN local.rows
    /\ local.rows[id].isPopupOpen
    /\ After(page, apollo, net, Closed(local, id))
    /\ UNCHANGED <<store, cache, req, out, hist, dbvars, monitorvars>>

\* client.refetchQueries({ include: [GetAllEmployees, GetDepartments] }):
\* the watched queries of these names are sent again.
RefetchIncluded(p) == RefetchActive(p)

\* openPopup after its await.
IncrementViewSettles(i) ==
    /\ net[i].by = "fetch"
    /\ net[i].resp # NoResponse
    /\ LET id == net[i].id
           resp == net[i].resp
           mounted == id \in DOMAIN local.rows
       IN  IF resp.kind = "error"
           THEN IF includes(ErrorMessage(resp), "Employee not found")
                THEN /\ After(page, apollo,
                              Remove(net, i) \o RefetchIncluded(page),
                              IF mounted
                              THEN [Closed(local, id) EXCEPT
                                       !.rows[id].isDeleted = TRUE]
                              ELSE local)
                     /\ hist' = [hist EXCEPT !.marked =
                                    IF mounted THEN @ \cup {id} ELSE @]
                ELSE /\ After(page, apollo, Remove(net, i),
                              Closed(local, id))
                     /\ hist' = hist
           ELSE IF resp.kind = "data"
           THEN /\ After(page, apollo, Remove(net, i),
                         IF mounted
                         THEN [local EXCEPT !.rows[id].views =
                                                resp.data[1].views]
                         ELSE local)
                /\ hist' = hist
           ELSE /\ After(page, apollo, Remove(net, i), Closed(local, id))
                /\ hist' = hist
    /\ UNCHANGED <<store, cache, req, out, dbvars, monitorvars>>

\* A document is removed from the collection by other means than this
\* service, which has no operation that deletes.
ExternalDelete(oid) ==
    /\ oid \in DOMAIN store
    /\ store' = [o \in DOMAIN store \ {oid} |-> store[o]]
    /\ UNCHANGED <<cache, req, out, hist, dbvars, clientvars, monitorvars>>

-----------------------------------------------------------------------------
(* Specifications *)

\* The process has connected to a store that held one employee, so that
\* nothing was seeded.
Init ==
    /\ store = [o \in {SeedOid} |-> SeedDoc]
    /\ cache = [k \in {} |-> [text |-> <<>>, ttl |-> 0]]
    /\ req = [r \in Req |-> Idle]
    /\ out = NoOut
    /\ departments = [o \in {} |-> SeedDepartments[1]]
    /\ hist = [created |-> {}, inc |-> [o \in {} |-> [n |-> 0, views |-> 0]],
               marked |-> {},
               initial |-> [employees |-> store, departments |-> departments]]
    /\ cachedDb = TRUE
    /\ mongoClient = 1
    /\ ClientInit
    /\ MonitorInit

\* Calls arrive at any time and their steps interleave at every await.
Next ==
    \/ \E r \in Req :
          \/ CallGetAllEmployees(r)
          \/ \E id \in FewIdInputs : CallGetEmployeeDetails(r, id)
          \/ \E args \in FewAddInputs : CallAddEmployee(r, args)
          \/ \E id \in FewIdInputs : CallIncrementView(r, id)
          \/ GetAllEmployeesFind(r)
          \/ GetAllEmployeesSet(r)
          \/ GetEmployeeDetailsFindOne(r)
          \/ GetEmployeeDetailsSet(r)
          \/ AddEmployeeInsertOne(r)
          \/ AddEmployeeInvalidate(r)
          \/ IncrementViewFindOne(r)
          \/ IncrementViewUpdateOne(r)
          \/ IncrementViewFindOne2(r)
          \/ IncrementViewInvalidate(r)
    \/ \E key \in DOMAIN cache : Evict(key)
    \/ Deliver

Spec == Init /\ [][Next]_vars

\* One caller that issues a call only after the previous one has returned,
\* and tries every spelling of an id.
AllIdle == \A r \in Req : req[r].pc = "idle"

NextSeq ==
    \/ \E r \in Req :
          \/ AllIdle /\ CallGetAllEmployees(r)
          \/ AllIdle /\ \E id \in IdInputs : CallGetEmployeeDetails(r, id)
          \/ AllIdle /\ \E args \in FewAddInputs : CallAddEmployee(r, args)
          \/ AllIdle /\ \E id \in IdInputs : CallIncrementView(r, id)
          \/ GetAllEmployeesFind(r)
          \/ GetAllEmployeesSet(r)
          \/ GetEmployeeDetailsFindOne(r)
          \/ GetEmployeeDetailsSet(r)
          \/ AddEmployeeInsertOne(r)
          \/ AddEmployeeInvalidate(r)
          \/ IncrementViewFindOne(r)
          \/ IncrementViewUpdateOne(r)
          \/ IncrementViewFindOne2(r)
          \/ IncrementViewInvalidate(r)
    \/ \E key \in DOMAIN cache : Evict(key)
    \/ Deliver

SpecSeq == Init /\ [][NextSeq]_vars

\* One caller that adds employees, with every combination of the argument
\* values, and reads them back.
NextAdd ==
    \/ \E r \in Req :
          \/ AllIdle /\ CallGetAllEmployees(r)
          \/ AllIdle /\ \E id \in FewIdInputs : CallGetEmployeeDetails(r, id)
          \/ AllIdle /\ \E args \in AddInputs : CallAddEmployee(r, args)
          \/ GetAllEmployeesFind(r)
          \/ GetAllEmployeesSet(r)
          \/ GetEmployeeDetailsFindOne(r)
          \/ GetEmployeeDetailsSet(r)
          \/ AddEmployeeInsertOne(r)
          \/ AddEmployeeInvalidate(r)
    \/ \E key \in DOMAIN cache : Evict(key)
    \/ Deliver

SpecAdd == Init /\ [][NextAdd]_vars

\* The process starts unconnected, against a store in which each collection
\* is empty or holds one document.
InitialEmployees == {[o \in {} |-> SeedDoc], [o \in {SeedOid} |-> SeedDoc]}
InitialDepartments ==
    {[o \in {} |-> SeedDepartments[1]], [o \in {Oid(1)} |-> SeedDepartments[1]]}

InitConn ==
    /\ store \in InitialEmployees
    /\ departments \in InitialDepartments
    /\ cache = [k \in {} |-> [text |-> <<>>, ttl |-> 0]]
    /\ req = [r \in Req |-> Idle]
    /\ out = NoOut
    /\ hist = [created |-> {}, inc |-> [o \in {} |-> [n |-> 0, views |-> 0]],
               marked |-> {},
               initial |-> [employees |-> store, departments |-> departments]]
    /\ cachedDb = FALSE
    /\ mongoClient = 0
    /\ ClientInit
    /\ MonitorInit

\* The handler's context of concurrent requests: connectDB calls arrive at
\* any time and their steps interleave at every await.
NextConn ==
    \/ \E r \in Req :
          \/ CallConnectDB(r)
          \/ ConnectDBConnect(r)
          \/ SeedDataCountEmployees(r)
          \/ SeedDataCountDepartments(r)
          \/ SeedDataInsertDepartments(r)
          \/ SeedDataInsertEmployees(r)
          \/ EnsureViewsField(r)
    \/ Deliver

SpecConn == InitConn /\ [][NextConn]_vars

\* One caller from process start: every request connects first (the
\* handler's context) and its resolver runs on the open connection; no
\* cache entry expires or is evicted.
NextStart ==
    \/ \E r \in Req :
          \/ AllIdle /\ CallConnectDB(r)
          \/ AllIdle /\ cachedDb /\ CallGetAllEmployees(r)
          \/ AllIdle /\ cachedDb /\
                \E args \in FewAddInputs : CallAddEmployee(r, args)
          \/ AllIdle /\ cachedDb /\
                \E id \in {SeedOid, MissingId} : CallIncrementView(r, id)
          \/ ConnectDBConnect(r)
          \/ SeedDataCountEmployees(r)
          \/ SeedDataCountDepartments(r)
          \/ SeedDataInsertDepartments(r)
          \/ SeedDataInsertEmployees(r)
          \/ EnsureViewsField(r)
          \/ GetAllEmployeesFind(r)
          \/ GetAllEmployeesSet(r)
          \/ AddEmployeeInsertOne(r)
          \/ AddEmployeeInvalidate(r)
          \/ IncrementViewFindOne(r)
          \/ IncrementViewUpdateOne(r)
          \/ IncrementViewFindOne2(r)
          \/ IncrementViewInvalidate(r)
    \/ Deliver

SpecStart == InitConn /\ [][NextStart]_vars

\* The process has connected to a store that held one employee and the
\* three departments.
InitFault ==
    /\ store = [o \in {SeedOid} |-> SeedDoc]
    /\ departments = InsertMany([o \in {} |-> SeedDepartments[1]],
                                SeedDepartments)
    /\ cache = [k \in {} |-> [text |-> <<>>, ttl |-> 0]]
    /\ req = [r \in Req |-> Idle]
    /\ out = NoOut
    /\ hist = [created |-> {}, inc |-> [o \in {} |-> [n |-> 0, views |-> 0]],
               marked |-> {},
               initial |-> [employees |-> store, departments |-> departments]]
    /\ cachedDb = TRUE
    /\ mongoClient = 1
    /\ ClientInit
    /\ MonitorInit

DepartmentInputsOfReads == {<<"E", "n", "g">>, <<"I", "T">>}

\* The steps of the resolvers when nothing fails, for one caller.
NextResolvers ==
    \E r \in Req :
        \/ AllIdle /\ CallGetAllEmployees(r)
        \/ AllIdle /\ \E id \in FewIdInputs : CallGetEmployeeDetails(r, id)
        \/ AllIdle /\ \E department \in DepartmentInputsOfReads :
              CallGetEmployeesByDepartment(r, department)
        \/ AllIdle /\ CallGetDepartments(r)
        \/ AllIdle /\ \E args \in FewAddInputs : CallAddEmployee(r, args)
        \/ AllIdle /\ \E id \in FewIdInputs : CallIncrementView(r, id)
        \/ GetAllEmployeesFind(r)
        \/ GetAllEmployeesSet(r)
        \/ GetEmployeeDetailsFindOne(r)
        \/ GetEmployeeDetailsSet(r)
        \/ GetEmployeesByDepartmentFind(r)
        \/ GetDepartmentsFind(r)
        \/ GetDepartmentsSet(r)
        \/ AddEmployeeInsertOne(r)
        \/ AddEmployeeInvalidate(r)
        \/ IncrementViewFindOne(r)
        \/ IncrementViewUpdateOne(r)
        \/ IncrementViewFindOne2(r)
        \/ IncrementViewInvalidate(r)

\* One caller, and a cache whose get, set and delete may throw.
NextCacheFault ==
    \/ NextResolvers
    \/ \E r \in Req :
          \/ AllIdle /\ CallGetAllEmployeesGetThrows(r)
          \/ AllIdle /\ \E id \in FewIdInputs :
                CallGetEmployeeDetailsGetThrows(r, id)
          \/ AllIdle /\ CallGetDepartmentsGetThrows(r)
          \/ GetAllEmployeesSetThrows(r)
          \/ GetEmployeeDetailsSetThrows(r)
          \/ GetDepartmentsSetThrows(r)
          \/ AddEmployeeInvalidateThrows(r)
          \/ IncrementViewInvalidateThrows(r)
    \/ Deliver

SpecCacheFault == InitFault /\ [][NextCacheFault]_vars

\* One caller, and a store whose operations may reject.
NextStoreFault ==
    \/ NextResolvers
    \/ \E r \in Req, error \in StoreErrors :
          \/ GetAllEmployeesFindThrows(r, error)
          \/ GetEmployeeDetailsFindOneThrows(r, error)
          \/ GetEmployeesByDepartmentFindThrows(r, error)
          \/ GetDepartmentsFindThrows(r, error)
          \/ AddEmployeeInsertOneThrows(r, error)
          \/ IncrementViewStoreThrows(r, error)
    \/ Deliver

SpecStoreFault == InitFault /\ [][NextStoreFault]_vars

-----------------------------------------------------------------------------
(* Claims *)

\* The ids a response lists.
ListedIds(data) == {data[i].id : i \in DOMAIN data}

\* C1: after an addEmployee call with valid inputs has completed, the next
\* getAllEmployees call returns a list that includes the created employee,
\* whether or not employees:all was cached before the mutation.  A call
\* that starts after the employee was returned either answers from the
\* cache in its first step or reads the store; in both cases the list holds
\* every employee a completed addEmployee has returned.
C1_AddedEmployeeIsListed ==
    [][\A e \in hist.created :
          /\ out'.op = "getAllEmployees" /\ req' = req =>
                e.id \in ListedIds(out'.resp.data)
          /\ \A r \in Req :
                At(r, "getAllEmployees", "find") /\ req'[r].pc = "set" =>
                    e.id \in ListedIds(req'[r].rows)]_vars

\* C2: after an incrementView on an existing employee has completed, under
\* every id string incrementView accepts for it, the next getEmployeeDetails
\* (under any id string it accepts) and the next getAllEmployees return the
\* post-increment views, never a cached earlier value.
C2_ReadsReturnIncrementedViews ==
    out.op \in {"getEmployeeDetails", "getAllEmployees"} =>
        \A i \in DOMAIN out.resp.data :
            LET e == out.resp.data[i]
                oid == NewObjectId(e.id)
            IN  oid \in DOMAIN hist.inc => e.views = hist.inc[oid].views

\* C3: under any interleaving of a cached read with a concurrent mutation,
\* once both have finished no cache entry holds a value computed from
\* pre-mutation data: each entry is what a read of the store returns now.
Quiet == \A r \in Req : req[r].pc = "idle"

CachedId(key) ==
    SubSeq(key, Len(CACHE_KEYS_EMPLOYEE_DETAILS(<<>>)) + 1, Len(key))

EntryIsCurrent(key) ==
    LET value == JSONparse(cache[key].text)
    IN  IF key = CACHE_KEYS_EMPLOYEES
        THEN value \in FindAllSorted
        ELSE <<value>> = FindOne(NewObjectId(CachedId(key)))

C3_NoStaleEntryWhenQuiet ==
    Quiet => \A key \in DOMAIN cache : EntryIsCurrent(key)

\* C4: N incrementView calls on an existing employee raise its stored views
\* by exactly N, one after another or interleaved in any order: the stored
\* views are the initial views plus one for every call whose $inc has
\* reached the store, completed or still in flight.
InitialViews(oid) == IF oid = SeedOid THEN SeedDoc.views ELSE 0

PastUpdate(oid) ==
    {r \in Req :
        /\ req[r].op = "incrementView"
        /\ req[r].pc \in {"findOne2", "invalidate"}
        /\ IncrementViewTarget(req[r].id) = oid}

C4_NoLostIncrement ==
    \A oid \in DOMAIN store :
        /\ store[oid].views =
              InitialViews(oid) + Incremented(oid).n
                  + Cardinality(PastUpdate(oid))
        /\ PastUpdate(oid) = {} /\ PendingIncrements(oid) = 0 =>
              store[oid].views = InitialViews(oid) + Incremented(oid).n

\* Two incrementView calls on one employee whose store operations
\* interleaved: both have incremented and neither has re-read yet.
C4_TwoInterleaved ==
    \E oid \in DOMAIN store :
        /\ Cardinality({r \in PastUpdate(oid) : req[r].pc = "findOne2"}) = 2
        /\ store[oid].views = InitialViews(oid) + 2

\* C5: the stored views of every employee is a non-negative integer that
\* never decreases; only the $inc of an incrementView changes it, by
\* exactly 1, and every other step of every operation leaves it unchanged.
C5_ViewsOnlyGrowByIncrementView ==
    [][\A oid \in DOMAIN store :
          /\ oid \in DOMAIN store'
          /\ store[oid].views \in Nat
          /\ store'[oid].views \in Nat
          /\ \/ store'[oid].views = store[oid].views
             \/ /\ store'[oid].views = store[oid].views + 1
                /\ \E r \in Req :
                      /\ At(r, "incrementView", "updateOne")
                      /\ IncrementViewTarget(req[r].id) = oid
                      /\ req'[r].pc = "findOne2"]_vars

\* An employee was viewed once and another one was added meanwhile.
C5_ViewedAndAdded ==
    /\ Cardinality(DOMAIN store) = 2
    /\ store[SeedOid].views = 1
    /\ \E oid \in DOMAIN store : oid # SeedOid /\ store[oid].views = 0

\* C6: addEmployee succeeds exactly when name and position have at least 2
\* characters after trimming, department is non-empty after trimming and
\* 1000 <= salary <= 1000000; every other input fails with one of the
\* validation messages.  Salary 999 and 1000001 fail, 1000 and 1000000
\* succeed.
ValidAddEmployeeArgs(args) ==
    /\ Len(trim(args.name)) >= 2
    /\ Len(trim(args.position)) >= 2
    /\ Len(trim(args.department)) >= 1
    /\ 1000 <= args.salary
    /\ args.salary <= 1000000

ValidationMessages ==
    {"Name must be at least 2 characters",
     "Position must be at least 2 characters",
     "Department is required",
     "Salary must be between $1,000 and $1,000,000"}

C6_AddEmployeeAcceptsExactlyValid ==
    /\ \A r \in Req :
          req[r].op = "addEmployee" => ValidAddEmployeeArgs(req[r].args)
    /\ out.op = "addEmployee" =>
          /\ out.resp.kind = "data" <=> ValidAddEmployeeArgs(out.args)
          /\ out.resp.kind = "error" <=> ~ValidAddEmployeeArgs(out.args)
          /\ out.resp.kind = "error" =>
                out.resp.message[2] \in ValidationMessages
          /\ out.args.salary \in {999, 1000001} => out.resp.kind = "error"

\* addEmployee succeeded with the largest salary and a padded name.
C6_AcceptedAtUpperLimit ==
    /\ out.op = "addEmployee"
    /\ out.resp.kind = "data"
    /\ out.args.salary = 1000000
    /\ out.args.name = <<" ", "C", "y", " ">>

\* C7: an addEmployee call that fails validation writes nothing: the
\* employees collection is unchanged and no cache key is set or
\* invalidated; the call ends in the step that rejects it.
C7_RejectedAddEmployeeWritesNothing ==
    [][out'.op = "addEmployee" /\ out'.resp.kind = "error" =>
          store' = store /\ cache' = cache /\ req' = req]_vars

\* addEmployee was rejected while employees:all was cached.
C7_RejectedWithListCached ==
    /\ out.op = "addEmployee"
    /\ out.resp.kind = "error"
    /\ CACHE_KEYS_EMPLOYEES \in DOMAIN cache

\* C8: every employee record created through addEmployee has salary within
\* [1000, 1000000], name and position stored trimmed with length at least
\* 2, a non-empty trimmed department, and was created with views = 0.
WithinInvariants(doc) ==
    /\ 1000 <= doc.salary /\ doc.salary <= 1000000
    /\ trim(doc.name) = doc.name /\ Len(doc.name) >= 2
    /\ trim(doc.position) = doc.position /\ Len(doc.position) >= 2
    /\ trim(doc.department) = doc.department /\ Len(doc.department) >= 1

C8_CreatedRecordsWithinInvariants ==
    /\ [](\A oid \in DOMAIN store \ {SeedOid} : WithinInvariants(store[oid]))
    /\ [](\A e \in hist.created : WithinInvariants(e) /\ e.views = 0)
    /\ [][\A oid \in DOMAIN store' \ DOMAIN store : store'[oid].views = 0]_vars

\* A record was created from a padded name and the largest salary.
C8_CreatedFromPaddedInput ==
    \E e \in hist.created :
        /\ e.name = <<"C", "y">>
        /\ e.salary = 1000000
        /\ store[NewObjectId(e.id)].name = <<"C", "y">>

\* C9: round trip: for all valid addEmployee inputs the returned id is
\* resolvable, and getEmployeeDetails(id) called next returns the name,
\* position, department and salary addEmployee returned, with views = 0.
C9_RoundTrip ==
    out.op = "getEmployeeDetails" =>
        \A e \in hist.created :
            e.id = out.id =>
                /\ out.resp.kind = "data"
                /\ out.resp.data = <<e>>
                /\ out.resp.data[1].views = 0

\* getEmployeeDetails answered for an id addEmployee had returned.
C9_ReadBackCreated ==
    /\ out.op = "getEmployeeDetails"
    /\ out.resp.kind = "data"
    /\ \E e \in hist.created : e.id = out.id /\ e.salary = 1000000

\* C10: getEmployeeDetails and incrementView called with a malformed
\* identifier (not 24 hex digits, surrounding white space aside) fail with
\* "Invalid employee ID format" before any cache lookup or store access:
\* the call ends in its first step and leaves store and cache unchanged.
IsHexDigit(c) ==
    c \in {"0", "1", "2", "3", "4", "5", "6", "7", "8", "9",
           "a", "b", "c", "d", "e", "f", "A", "B", "C", "D", "E", "F"}

MalformedIdentifier(id) ==
    ~(Len(trim(id)) = 24 /\ \A i \in DOMAIN trim(id) : IsHexDigit(trim(id)[i]))

C10_MalformedIdRejectedUntouched ==
    [][/\ \A r \in Req :
             req'[r].op \in {"getEmployeeDetails", "incrementView"} =>
                 ~MalformedIdentifier(req'[r].id)
       /\ out'.op \in {"getEmployeeDetails", "incrementView"}
             /\ MalformedIdentifier(out'.id) =>
                 /\ out'.resp.kind = "error"
                 /\ out'.resp.message[2] = "Invalid employee ID format"
                 /\ store' = store /\ cache' = cache /\ req' = req]_vars

\* incrementView rejected a malformed id while a details entry was cached.
C10_RejectedMalformed ==
    /\ out.op = "incrementView"
    /\ out.id = Padded(MalformedId)
    /\ out.resp.kind = "error"
    /\ cache # <<>>

\* C11: getEmployeeDetails with a well-formed id that matches no record
\* fails with "Employee not found", and that error response, message and
\* code together, differs from the one a malformed identifier gets.
InvalidIdResponse ==
    Failure("Error fetching employee: ", "Invalid employee ID format")

C11_NotFoundDistinctFromInvalid ==
    out.op = "getEmployeeDetails" =>
        /\ ~ObjectIdIsValid(out.id) => out.resp = InvalidIdResponse
        /\ ObjectIdIsValid(out.id) /\ NewObjectId(out.id) \notin DOMAIN store =>
              /\ out.resp.kind = "error"
              /\ out.resp.message[2] = "Employee not found"
              /\ out.resp.code # ""
              /\ <<out.resp.message, out.resp.code>> #
                    <<InvalidIdResponse.message, InvalidIdResponse.code>>

\* getEmployeeDetails answered for a well-formed id no document has, with
\* the employee list cached.
C11_MissingIdAnswered ==
    /\ out.op = "getEmployeeDetails"
    /\ out.id = MissingId
    /\ out.resp.kind = "error"
    /\ out.resp.code = "INTERNAL_SERVER_ERROR"
    /\ CACHE_KEYS_EMPLOYEES \in DOMAIN cache

\* C12: incrementView with a well-formed id for which no record exists
\* fails with "Employee not found" and performs no increment and no cache
\* invalidation: neither step of the call changes store or cache, and the
\* call never reaches the $inc.
C12_MissingIncrementViewTouchesNothing ==
    [][\A r \in Req :
          /\ req[r].pc = "idle" /\ req'[r].op = "incrementView" =>
                store' = store /\ cache' = cache
          /\ (/\ At(r, "incrementView", "findOne")
              /\ IncrementViewTarget(req[r].id) \notin DOMAIN store
              /\ req'[r] # req[r]) =>
                /\ req'[r].pc = "idle"
                /\ out'.op = "incrementView"
                /\ out'.resp.kind = "error"
                /\ out'.resp.message[2] = "Employee not found"
                /\ store' = store /\ cache' = cache
          /\ (/\ req'[r].op = "incrementView"
              /\ req'[r].pc \in {"updateOne", "findOne2", "invalidate"}) =>
                IncrementViewTarget(req'[r].id) \in DOMAIN store']_vars

\* incrementView was refused for an id no document has while the employee
\* list and a details entry were cached.
C12_MissingIdRefused ==
    /\ out.op = "incrementView"
    /\ out.id = MissingId
    /\ out.resp.message = <<"Error incrementing view: ", "Employee not found">>
    /\ CACHE_KEYS_EMPLOYEES \in DOMAIN cache
    /\ CACHE_KEYS_EMPLOYEE_DETAILS(SeedOid) \in DOMAIN cache

\* C13: repeated getAllEmployees calls with no mutation in between and no
\* entry expired return identical results, and only the first of them
\* reads the store, for every store content, the empty collection
\* included.  The list a call returns after reading the store is the list
\* the cache then holds; the entry stays as it is until a mutation
\* invalidates it; a call that finds the entry returns it at once and reads
\* nothing.
CachedList(c) ==
    IF CACHE_KEYS_EMPLOYEES \in DOMAIN c
    THEN <<JSONparse(c[CACHE_KEYS_EMPLOYEES].text)>>
    ELSE <<>>

MutationInvalidates ==
    \E q \in Req :
        /\ req[q].op \in {"addEmployee", "incrementView"}
        /\ req[q].pc = "invalidate"
        /\ req'[q].pc = "idle"

BothEmptyAtStart ==
    /\ DOMAIN hist.initial.employees = {}
    /\ DOMAIN hist.initial.departments = {}

Connected ==
    /\ cachedDb
    /\ \A r \in Req : req[r].pc = "idle"

ConnectDBStep ==
    \/ out'.op = "connectDB"
    \/ \E r \in Req :
          /\ req'[r] # req[r]
          /\ req[r].op = "connectDB" \/ req'[r].op = "connectDB"

C14_SeededOnlyIntoEmptyStore ==
    /\ [](Connected =>
            /\ Cardinality(DOMAIN departments) =
                  IF BothEmptyAtStart THEN 3
                  ELSE Cardinality(DOMAIN hist.initial.departments)
            /\ Cardinality(DOMAIN store) - Cardinality(hist.created) =
                  IF BothEmptyAtStart THEN 6
                  ELSE Cardinality(DOMAIN hist.initial.employees))
    /\ [][ConnectDBStep =>
            /\ (store' # store \/ departments' # departments) =>
                  BothEmptyAtStart /\ mongoClient = 1
            /\ \A o \in DOMAIN store' \ DOMAIN store :
                  /\ store'[o].views = 0
                  /\ \E i \in DOMAIN SeedEmployees : store'[o] = SeedEmployees[i]
            /\ \A o \in DOMAIN departments' \ DOMAIN departments :
                  \E i \in DOMAIN SeedDepartments :
                      departments'[o] = SeedDepartments[i]
            /\ \A o \in DOMAIN store : store'[o] = store[o]
            /\ \A o \in DOMAIN departments : departments'[o] = departments[o]
            /\ (out'.op = "connectDB" /\ req' = req) =>
                  store' = store /\ departments' = departments]_vars

\* A second connectDB call returned after the first one had seeded the
\* empty store.
C14_SecondCallAfterSeeding ==
    /\ out.op = "connectDB"
    /\ BothEmptyAtStart
    /\ Cardinality(DOMAIN store) = 6
    /\ Cardinality(DOMAIN departments) = 3
    /\ CachedList(cache) # <<>>

\* C15: for any number of requests that arrive before the first connection
\* is established, the process opens exactly one store connection and runs
\* seeding at most once, so an empty store receives the seed data once.
C15_OneConnectionOneSeeding ==
    /\ mongoClient <= 1
    /\ BothEmptyAtStart =>
          /\ Cardinality(DOMAIN departments) <= 3
          /\ Cardinality(DOMAIN store) <= 6

\* The list is every document of the collection once, names ascending.
IsListingOf(list, employees) ==
    /\ Len(list) = Cardinality(DOMAIN employees)
    /\ \A i \in DOMAIN list :
          LET oid == NewObjectId(list[i].id)
          IN  /\ oid \in DOMAIN employees
              /\ list[i].name = employees[oid].name
              /\ list[i].position = employees[oid].position
              /\ list[i].department = employees[oid].department
              /\ list[i].salary = employees[oid].salary
              /\ list[i].views = employees[oid].views
    /\ \A i, j \in DOMAIN list : i # j => list[i].id # list[j].id
    /\ \A i \in 1..(Len(list) - 1) : StrLeq(list[i].name, list[i + 1].name)

\* C16: a cache failure never fails the surrounding operation.  If the
\* cache get throws, the read goes on as on a miss and returns the store's
\* data; if a cache set or delete throws, the read or mutation still
\* returns its normal result.  With a failing cache the only errors are
\* those of the operations' own checks, and every operation that gets past
\* them returns what the store holds.
OwnCheckMessages ==
    ValidationMessages \cup {"Invalid employee ID format", "Employee not found"}

Completes(r, op, pc) == At(r, op, pc) /\ req'[r].pc = "idle"

C16_CacheFailureNeverFailsOperation ==
    /\ [](out.resp.kind = "error" => out.resp.message[2] \in OwnCheckMessages)
    /\ [][\A r \in Req :
             /\ Completes(r, "getAllEmployees", "set") =>
                   /\ out'.resp = Data(req[r].rows)
                   /\ IsListingOf(req[r].rows, store)
             /\ Completes(r, "getEmployeeDetails", "set") =>
                   /\ out'.resp = Data(req[r].rows)
                   /\ req[r].rows = FindOne(NewObjectId(req[r].id))
             /\ Completes(r, "getDepartments", "set") =>
                   /\ out'.resp = Data(req[r].rows)
                   /\ req[r].rows \in FindDepartmentsSorted
             /\ Completes(r, "addEmployee", "invalidate") =>
                   /\ out'.resp = Data(req[r].rows)
                   /\ FindOne(NewObjectId(req[r].rows[1].id)) = req[r].rows
             /\ Completes(r, "incrementView", "invalidate") =>
                   /\ out'.resp = Data(req[r].rows)
                   /\ FindOne(IncrementViewTarget(req[r].id)) = req[r].rows
            ]_vars

\* addEmployee returned its record although a cache delete threw: the list
\* entry it should have dropped is still cached.
C16_AddedWhileDeleteThrew ==
    /\ out.op = "addEmployee"
    /\ out.resp.kind = "data"
    /\ CachedList(cache) # <<>>
    /\ Len(CachedList(cache)[1]) = 1

\* C17: when a store operation fails inside any resolver, the caller
\* receives an error with code INTERNAL_SERVER_ERROR whose message contains
\* no text taken from the store's exception.
C17_StoreFailureIsOpaque ==
    out.resp.kind = "error" =>
        /\ out.resp.code = "INTERNAL_SERVER_ERROR"
        /\ \A error \in StoreErrors :
              out.resp.message[1] # error /\ out.resp.message[2] # error

\* The process has connected to a store that held one department and no
\* employee, so that nothing was seeded.
InitAddRace ==
    /\ store = [o \in {} |-> SeedDoc]
    /\ departments = [o \in {Oid(1)} |-> SeedDepartments[1]]
    /\ cache = [k \in {} |-> [text |-> <<>>, ttl |-> 0]]
    /\ req = [r \in Req |-> Idle]
    /\ out = NoOut
    /\ hist = [created |-> {}, inc |-> [o \in {} |-> [n |-> 0, views |-> 0]],
               marked |-> {},
               initial |-> [employees |-> store, departments |-> departments]]
    /\ cachedDb = TRUE
    /\ mongoClient = 1
    /\ ClientInit
    /\ MonitorInit

RaceAddInputs ==
    FewAddInputs \cup
    {[name |-> <<" ", "C", "y", " ">>, position |-> <<"Q", "A">>,
      department |-> <<"I", "T">>, salary |-> 1000000]}

\* addEmployee calls arrive at any time, also while another one is at an
\* await, next to reads of the list.
NextAddRace ==
    \/ \E r \in Req :
          \/ \E args \in RaceAddInputs : CallAddEmployee(r, args)
          \/ CallGetAllEmployees(r)
          \/ AddEmployeeInsertOne(r)
          \/ AddEmployeeInvalidate(r)
          \/ GetAllEmployeesFind(r)
          \/ GetAllEmployeesSet(r)
    \/ Deliver

SpecAddRace == InitAddRace /\ [][NextAddRace]_vars

\* C18: two concurrent addEmployee calls with valid inputs both succeed,
\* are assigned distinct ids, and both records are present in the store
\* once both calls have completed, for every interleaving of their steps.
\* Every addEmployee with valid input answers with data; the ids of calls
\* in flight together differ from each other, and the id a call returns
\* was returned by no earlier call; when no call is in flight, every record
\* returned is the one the store holds under its id.
InsertedBy(r) == req[r].rows[1]

C18_ConcurrentAddsBothSucceed ==
    /\ [](/\ (out.op = "addEmployee" /\ ValidAddEmployeeArgs(out.args))
                => out.resp.kind = "data"
          /\ \A r, q \in Req :
                (/\ r # q
                 /\ At(r, "addEmployee", "invalidate")
                 /\ At(q, "addEmployee", "invalidate"))
                => InsertedBy(r).id # InsertedBy(q).id
          /\ AllIdle =>
                \A created \in hist.created :
                    FindOne(NewObjectId(created.id)) = <<created>>)
    /\ [][\A r \in Req :
             Completes(r, "addEmployee", "invalidate") =>
                /\ out'.resp = Data(<<InsertedBy(r)>>)
                /\ \A created \in hist.created : created.id # InsertedBy(r).id
                /\ hist'.created = hist.created \cup {InsertedBy(r)}
            ]_vars

\* One of two addEmployee calls that were in flight together has returned
\* its record, the other has inserted and not yet returned; the store
\* holds both records.
C18_OneReturnedOtherInFlight ==
    /\ out.op = "addEmployee"
    /\ out.resp.kind = "data"
    /\ \E r \in Req :
          /\ At(r, "addEmployee", "invalidate")
          /\ InsertedBy(r).id # out.resp.data[1].id
    /\ Cardinality(DOMAIN store) = 2

InitSeeded ==
    /\ store = InsertMany([o \in {} |-> SeedDoc], SeedEmployees)
    /\ departments = InsertMany([o \in {} |-> SeedDepartments[1]],
                                SeedDepartments)
    /\ cache = [k \in {} |-> [text |-> <<>>, ttl |-> 0]]
    /\ req = [r \in Req |-> Idle]
    /\ out = NoOut
    /\ hist = [created |-> {}, inc |-> [o \in {} |-> [n |-> 0, views |-> 0]],
               marked |-> {},
               initial |-> [employees |-> store, departments |-> departments]]
    /\ cachedDb = TRUE
    /\ mongoClient = 1
    /\ ClientInit
    /\ MonitorInit

\* Department arguments: stored names, a padded one, one in another case
\* and one no document has.
DepartmentArguments ==
    {<<"E", "n", "g">>, <<" ", "E", "n", "g", " ">>, <<"e", "n", "g">>,
     <<"M", "k", "t">>, <<"I", "T">>}

\* One caller reads by department, reads the list and counts views.
NextDept ==
    \/ \E r \in Req :
          \/ AllIdle /\ \E department \in DepartmentArguments :
                CallGetEmployeesByDepartment(r, department)
          \/ AllIdle /\ CallGetAllEmployees(r)
          \/ AllIdle /\ \E id \in {Oid(1), Oid(3)} : CallIncrementView(r, id)
          \/ GetEmployeesByDepartmentFind(r)
          \/ GetAllEmployeesFind(r)
          \/ GetAllEmployeesSet(r)
          \/ IncrementViewFindOne(r)
          \/ IncrementViewUpdateOne(r)
          \/ IncrementViewFindOne2(r)
          \/ IncrementViewInvalidate(r)
    \/ Deliver

SpecDept == InitSeeded /\ [][NextDept]_vars

\* C21: getEmployeesByDepartment returns exactly the stored employees whose
\* department equals the argument string exactly, always reads the store,
\* and neither reads nor writes any cache entry.  The call never answers
\* before its find, whatever the cache holds; what it returns is, once
\* each, every stored employee whose department is the argument character
\* for character, as the store holds it at the find; no step of the call
\* changes the cache.
IsDepartmentListingOf(list, department, employees) ==
    LET ids == {o \in DOMAIN employees :
                   employees[o].department = department}
    IN  /\ Len(list) = Cardinality(ids)
        /\ {NewObjectId(list[i].id) : i \in DOMAIN list} = ids
        /\ \A i \in DOMAIN list :
              list[i] = ToEmployee(NewObjectId(list[i].id),
                                   employees[NewObjectId(list[i].id)])

C21_ByDepartmentIsExactAndUncached ==
    [][/\ out'.op = "getEmployeesByDepartment" =>
             /\ \E r \in Req : Completes(r, "getEmployeesByDepartment", "find")
             /\ out'.resp.kind = "data"
             /\ IsDepartmentListingOf(out'.resp.data, out'.id, store)
       /\ \A r \in Req :
             (\/ req'[r].op = "getEmployeesByDepartment"
              \/ req[r].op = "getEmployeesByDepartment")
             => /\ cache' = cache
                /\ store' = store
      ]_vars

\* A padded department argument returned nothing while the list entry was
\* cached and the store held employees of the unpadded department.
C21_PaddedArgumentMatchesNothing ==
    /\ out.op = "getEmployeesByDepartment"
    /\ out.id = <<" ", "E", "n", "g", " ">>
    /\ out.resp = Data(<<>>)
    /\ CachedList(cache) # <<>>

\* The process starts unconnected, against a store whose employees
\* collection is empty or holds a document written before views existed,
\* alone or next to one that carries views.
LegacyDoc == [SeedDoc EXCEPT !.views = NoViews]

ViewedDoc == [SeedEmployees[2] EXCEPT !.views = 2]

LegacyEmployees ==
    {[o \in {} |-> SeedDoc],
     [o \in {Oid(1)} |-> LegacyDoc],
     [o \in {Oid(1), Oid(2)} |-> IF o = Oid(1) THEN LegacyDoc ELSE ViewedDoc]}

InitHandler ==
    /\ store \in LegacyEmployees
    /\ departments \in InitialDepartments
    /\ cache = [k \in {} |-> [text |-> <<>>, ttl |-> 0]]
    /\ req = [r \in Req |-> Idle]
    /\ out = NoOut
    /\ hist = [created |-> {}, inc |-> [o \in {} |-> [n |-> 0, views |-> 0]],
               marked |-> {},
               initial |-> [employees |-> store, departments |-> departments]]
    /\ cachedDb = FALSE
    /\ mongoClient = 0
    /\ ClientInit
    /\ MonitorInit

\* The handler's context and resolver for requests that arrive once the
\* first request's connect() has resolved: each request calls connectDB and,
\* when it has the handle, getAllEmployees.  A resolver runs only with a
\* handle, and a handle is only ever returned when cachedDb is assigned.
NextHandler ==
    \/ \E r \in Req :
          \/ /\ ~cachedDb => \A q \in Req : req[q].op # "connectDB"
             /\ CallConnectDB(r)
          \/ ConnectDBConnect(r)
          \/ SeedDataCountEmployees(r)
          \/ SeedDataCountDepartments(r)
          \/ SeedDataInsertDepartments(r)
          \/ SeedDataInsertEmployees(r)
          \/ SeedDataThrows(r)
          \/ EnsureViewsField(r)
          \/ EnsureViewsFieldThrows(r)
          \/ cachedDb /\ CallGetAllEmployees(r)
          \/ GetAllEmployeesFind(r)
          \/ GetAllEmployeesSet(r)
    \/ Deliver

SpecHandler == InitHandler /\ [][NextHandler]_vars

\* C22: once connectDB has returned a store handle to any request, every
\* document in the employees collection carries an integer views field:
\* documents that lacked one have been set to views = 0 and all other
\* documents are unchanged by the migration.  Stated at the return of the
\* handle, for the documents the store held at the start.
Migrated(doc) == IF doc.views = NoViews THEN [doc EXCEPT !.views = 0] ELSE doc

C22_ViewsMigratedOnceHandleReturned ==
    (out.op = "connectDB" /\ out.resp.kind = "data") =>
        /\ \A o \in DOMAIN store : store[o].views \in Nat
        /\ \A o \in DOMAIN hist.initial.employees :
              store[o] = Migrated(hist.initial.employees[o])

\* C28: whenever a resolver reads or writes the store, the seeding and the
\* views migration of the process's first connection have already
\* completed: connectDB never hands the store handle to a request while the
\* first caller's seedData or ensureViewsField is still in progress or after
\* it has failed, so no read can observe (or cache) a partially seeded
\* store.  A resolver is at work only when no connectDB call is still
\* between connect() and its return, and what it reads or has cached is
\* never the employees of a store whose seeding has inserted the
\* departments only.
SetupInProgress ==
    \E q \in Req :
        /\ req[q].op = "connectDB"
        /\ req[q].pc \in {"countEmployees", "countDepartments",
                          "insertDepartments", "insertEmployees",
                          "ensureViewsField"}

PartiallySeeded ==
    /\ BothEmptyAtStart
    /\ DOMAIN departments # {}
    /\ DOMAIN store = {}

C28_NoHandleBeforeSetupCompleted ==
    /\ (\E r \in Req : req[r].op = "getAllEmployees") => ~SetupInProgress
    /\ PartiallySeeded => CachedList(cache) = <<>>

\* The ids asked for: the stored one, the one the next insert is given, in
\* two spellings, and a malformed one.
DetailIds == {Oid(1), Oid(2), UpperHex(Oid(2)), MalformedId}

\* One caller reads employees by id, before and after they are added, over
\* a store whose findOne may reject.
NextDetails ==
    \/ \E r \in Req :
          \/ AllIdle /\ \E id \in DetailIds : CallGetEmployeeDetails(r, id)
          \/ AllIdle /\ \E args \in FewAddInputs : CallAddEmployee(r, args)
          \/ GetEmployeeDetailsFindOne(r)
          \/ \E error \in StoreErrors : GetEmployeeDetailsFindOneThrows(r, error)
          \/ GetEmployeeDetailsSet(r)
          \/ AddEmployeeInsertOne(r)
          \/ AddEmployeeInvalidate(r)
    \/ \E key \in DOMAIN cache : Evict(key)
    \/ Deliver

SpecDetails == Init /\ [][NextDetails]_vars

\* C29: a getEmployeeDetails call that fails (malformed id, no matching
\* record, or store error) writes no cache entry, so a getEmployeeDetails
\* for the same id issued after the record exists always reads the store
\* and returns the record.  A failing call leaves the cache as it was; the
\* cache never holds an entry for an id that has no record; a call that
\* finds no entry and whose record exists fails only if the store does, and
\* otherwise returns the record the store holds.
DetailsKeys == DOMAIN cache \ {CACHE_KEYS_EMPLOYEES, CACHE_KEYS_DEPARTMENTS}

C29_FailedDetailsReadCachesNothing ==
    /\ [](\A key \in DetailsKeys :
             NewObjectId(CachedId(key)) \in DOMAIN store)
    /\ [][/\ (out'.op = "getEmployeeDetails" /\ out'.resp.kind = "error")
                => cache' = cache
          /\ \A r \in Req :
                /\ (/\ At(r, "getEmployeeDetails", "findOne")
                    /\ FindOne(NewObjectId(req[r].id)) # <<>>
                    /\ out'.resp.kind = "error")
                   => out'.resp.message[2] \in StoreErrors
                /\ Completes(r, "getEmployeeDetails", "set") =>
                      /\ out'.resp = Data(req[r].rows)
                      /\ req[r].rows = FindOne(NewObjectId(req[r].id))
         ]_vars

\* The employee added second was read from the store and is about to be
\* returned under an id for which no entry is cached, while the first
\* employee's entry is.
C29_ReadOfAddedEmployeeReachedStore ==
    \E r \in Req :
        /\ At(r, "getEmployeeDetails", "set")
        /\ req[r].id = Oid(2)
        /\ CACHE_KEYS_EMPLOYEE_DETAILS(Oid(2)) \notin DOMAIN cache
        /\ CACHE_KEYS_EMPLOYEE_DETAILS(Oid(1)) \in DOMAIN cache

\* The monitor of a process that records metrics with any timestamps and
\* clears old ones at any time.
NextMonitor ==
    \/ \E metric \in PerformanceMetrics : recordMetric(metric)
    \/ clearOldMetrics
    \/ Tick

SpecMonitor == Init /\ [][NextMonitor]_vars

\* The last n metrics recorded.
MostRecent(n) == sliceLast(recorded, n)

\* C30 as stated: after any sequence of recordMetric and clearOldMetrics
\* calls, PerformanceMonitor holds at most 1000 (here maxMetrics) metrics,
\* and when more than that have been recorded the ones retained are the most
\* recently recorded, in recording order.
C30_RetainsTheMostRecent ==
    /\ Len(performanceMonitor.metrics) <= maxMetrics
    /\ Len(recorded) > maxMetrics =>
          performanceMonitor.metrics =
              MostRecent(Len(performanceMonitor.metrics))

\* The elements of s at the positions in keep, in the order of s.
RECURSIVE Picked(_, _)
Picked(s, keep) ==
    IF s = <<>> THEN <<>>
    ELSE LET rest == Picked(Tail(s), {i - 1 : i \in keep \ {1}})
         IN  IF 1 \in keep THEN <<Head(s)>> \o rest ELSE rest

IsSubsequence(t, s) == \E keep \in SUBSET DOMAIN s : Picked(s, keep) = t

TimestampsNeverDecrease ==
    \A i \in 1..(Len(recorded) - 1) :
        recorded[i].timestamp <= recorded[i + 1].timestamp

\* C30, amended: after any sequence of recordMetric and clearOldMetrics
\* calls, PerformanceMonitor holds at most maxMetrics metrics, in recording
\* order; they are exactly the most recently recorded ones when no metric
\* was recorded with a timestamp lower than that of a metric recorded
\* before it, and recordMetric always keeps the new metric and the most
\* recent of those held before it.
C30_RetainsRecentInOrder ==
    /\ [](/\ Len(performanceMonitor.metrics) <= maxMetrics
          /\ IsSubsequence(performanceMonitor.metrics, recorded)
          /\ TimestampsNeverDecrease =>
                performanceMonitor.metrics =
                    MostRecent(Len(performanceMonitor.metrics)))
    /\ [][recorded' # recorded =>
             performanceMonitor'.metrics =
                 sliceLast(Append(performanceMonitor.metrics,
                                  recorded'[Len(recorded')]),
                           maxMetrics)]_vars

\* More metrics than the capacity were recorded with timestamps in order,
\* clearOldMetrics has dropped one of those the capacity had left, and the
\* monitor is not empty.
C30_ClearedAfterOverflow ==
    /\ Len(recorded) > maxMetrics
    /\ TimestampsNeverDecrease
    /\ Len(performanceMonitor.metrics) \in 1..(maxMetrics - 1)

\* The list page and the creation form over the service, each request
\* answered in one step.
NextForm ==
    \/ Load("home")
    \/ Load("add")
    \/ Navigate("home", "add")
    \/ Navigate("add", "home")
    \/ \E formData \in FormData : handleSubmit(formData)
    \/ \E i \in DOMAIN net : Serve(i)
    \/ \E i \in DOMAIN net : ServeStoreFailure(i, "connection closed")
    \/ \E i \in DOMAIN net : NetworkFails(i)
    \/ \E i \in DOMAIN net : QueryResult(i)
    \/ \E i \in DOMAIN net : MutationSettles(i)

SpecForm == InitFault /\ [][NextForm]_vars

\* The list the list page shows: the cached result, once no query of the
\* page is loading.
ListShown ==
    /\ TableShown(page, net, local)
    /\ apollo.getAllEmployees # <<>>
    /\ \A i \in DOMAIN net : net[i].op # "GetAllEmployees"

\* C23: after a successful addEmployee submitted from the creation form
\* the list page shows a list that includes the created employee, fetched
\* again from the service rather than taken from the client cache.
C23_ListShownIncludesCreated ==
    ListShown =>
        \A e \in hist.created :
            \E i \in DOMAIN apollo.getAllEmployees[1] :
                apollo.getAllEmployees[1][i].id = e.id

\* C25: a failed addEmployee mutation leaves the form on screen with the
\* error shown inline; only a successful one navigates to the list.
C25_FailedMutationStaysOnForm ==
    [][\A i \in DOMAIN net :
          (/\ net[i].by = "mutate"
           /\ net[i].resp.kind \in {"error", "network"}
           /\ ~MutationInFlight(net'))
          => (page' = "add" /\ "submit" \in DOMAIN local'.errors)]_vars

\* The ids a detail page is opened with.
RouteIds == {SeedOid, MissingId, MalformedId}

\* The list page with its rows and popups, and the detail page, over the
\* service.
NextBrowse ==
    \/ Load("home")
    \/ \E id \in RouteIds : LoadDetail(id)
    \/ Navigate("home", "add")
    \/ Navigate("add", "home")
    \/ handleGoBack
    \/ \E id \in DOMAIN local.rows : openPopup(id)
    \/ \E id \in DOMAIN local.rows : closePopup(id)
    \/ \E i \in DOMAIN net : Serve(i)
    \/ \E i \in DOMAIN net : ServeStoreFailure(i, "connection closed")
    \/ \E i \in DOMAIN net : NetworkFails(i)
    \/ \E i \in DOMAIN net : QueryResult(i)
    \/ \E i \in DOMAIN net : DetailResult(i)
    \/ \E i \in DOMAIN net : IncrementViewSettles(i)
    \/ \E oid \in DOMAIN store : ExternalDelete(oid)

SpecBrowse == InitFault /\ [][NextBrowse]_vars

\* The requests in flight that a mounted component's read has sent.
ReadsSent(requests, op, id) ==
    Cardinality({i \in DOMAIN requests :
        /\ requests[i].op = op
        /\ requests[i].id = id
        /\ requests[i].by \in {"useQuery", "refetch"}})

ListPageMounts == page' = "home" /\ page # "home"
FormMounts == page' = "add" /\ page # "add"
DetailMounts == local'.detail.id # NoId /\ local.detail.id = NoId

\* A read whose result is in the client cache sends no request.
C24_CachedReadSendsNothing ==
    [][/\ ListPageMounts =>
            /\ apollo.getAllEmployees # <<>> =>
                  ReadsSent(net', "GetAllEmployees", <<>>) = 0
            /\ apollo.getDepartments # <<>> =>
                  ReadsSent(net', "GetDepartments", <<>>) = 0
       /\ FormMounts =>
            (apollo.getDepartments # <<>> =>
                ReadsSent(net', "GetDepartments", <<>>) = 0)
       /\ DetailMounts =>
            (local'.detail.id \in DOMAIN apollo.getEmployeeDetails =>
                ReadsSent(net', "GetEmployeeDetails", local'.detail.id) = 0)
      ]_vars

\* A read whose result is not in the client cache sends exactly one
\* request.
C24_AbsentReadSendsOne ==
    [][/\ ListPageMounts =>
            /\ apollo.getAllEmployees = <<>> =>
                  ReadsSent(net', "GetAllEmployees", <<>>) = 1
            /\ apollo.getDepartments = <<>> =>
                  ReadsSent(net', "GetDepartments", <<>>) = 1
       /\ FormMounts =>
            (apollo.getDepartments = <<>> =>
                ReadsSent(net', "GetDepartments", <<>>) = 1)
       /\ DetailMounts =>
            (local'.detail.id \notin DOMAIN apollo.getEmployeeDetails =>
                ReadsSent(net', "GetEmployeeDetails", local'.detail.id) = 1)
      ]_vars

\* C24: a client read (employee list, departments, employee detail of one
\* id) whose result is in the client cache is served from it without a
\* request to the service, and one whose result is absent sends exactly
\* one request.
C24_CacheFirstReads ==
    C24_CachedReadSendsNothing /\ C24_AbsentReadSendsOne

\* The detail query failed because the service found no employee.
NotFoundFailure(resp) ==
    resp.kind = "error" /\ resp.message[2] = "Employee not found"

\* C26: on the employee detail page a read that failed because the
\* employee was not found leads to the not-found presentation; every other
\* failed read (a malformed id, a store failure, a lost request) shows its
\* message inline with the go-back button.
C26_NotFoundOrInlineError ==
    (/\ local.detail.id # NoId
     /\ ~DetailLoading
     /\ local.detail.failure # NoResponse)
    => IF NotFoundFailure(local.detail.failure)
       THEN Presentation.view = "notFound"
       ELSE /\ Presentation.view = "error"
            /\ Presentation.message = ErrorMessage(local.detail.failure)
            /\ Presentation.goBack

\* The detail page of an id no employee has shows the not-found
\* presentation after the service answered.
C26_NotFoundPresented ==
    /\ page = "detail"
    /\ local.detail.id = MissingId
    /\ NotFoundFailure(local.detail.failure)
    /\ Presentation.view = "notFound"

Refetched(op) ==
    \E j \in DOMAIN net' :
        net'[j].op = op /\ net'[j].by = "refetchQueries"
                        /\ net'[j].resp = NoResponse

\* C27: when the incrementView sent from a row fails with a not-found
\* error the row is marked deleted, its popup is closed, GetAllEmployees
\* and GetDepartments are sent again, and the row is not rendered in any
\* later state; no other failure marks a row deleted.
C27_NotFoundRowStaysDeleted ==
    /\ [][\A id \in DOMAIN local.rows :
             (id \in hist'.marked /\ id \notin hist.marked)
             => /\ \E i \in DOMAIN net :
                      /\ net[i].id = id
                      /\ net[i].by = "fetch"
                      /\ NotFoundFailure(net[i].resp)
                /\ local'.rows[id].isDeleted
                /\ ~local'.rows[id].isPopupOpen
                /\ Refetched("GetAllEmployees")
                /\ Refetched("GetDepartments")]_vars
    /\ [][\A id \in DOMAIN local'.rows :
             (local'.rows[id].isDeleted
                 /\ ~(id \in DOMAIN local.rows /\ local.rows[id].isDeleted))
             => id \in hist'.marked /\ id \notin hist.marked]_vars
    /\ [](\A id \in hist.marked : ~RowRendered(id))

====
